---- MODULE Spec2Model ----
(***************************************************************************)
(* Verification model of the MorphoVue post-segmentation quantification    *)
(* engine (ml-pipeline/postprocess.py).                                    *)
(*                                                                         *)
(* A numpy array is a record [shape, data]: data holds the elements in C    *)
(* (row-major) order, data[1] being the element at index (0, 0, 0).        *)
(* Python floats that the engine derives from integer counts and integer   *)
(* spacings are kept as integers; a float quotient is kept as a reduced    *)
(* fraction [num, den], and 0/0 as NaN.                                    *)
(***************************************************************************)
EXTENDS Integers, Sequences, FiniteSets, TLC

\* ---------------------------------------------------------------- bounds
MaxLabel == 2
Dim == 3
MaxSpacing == 2

\* ------------------------------------------------------- python values
None == [py |-> "None"]

\* a raised exception, as the outcome of a call
Raised(exc) == [raised |-> exc]
SimpleITK == [py |-> "module", name |-> "SimpleITK"]
scipy_ndimage == [py |-> "module", name |-> "scipy.ndimage"]

NaN == [num |-> 0, den |-> 0]

RECURSIVE GCD(_, _)
GCD(a, b) == IF b = 0 THEN a ELSE GCD(b, a % b)

\* float(a) for an integer a
Float(a) == [num |-> a, den |-> 1]

\* the float quotient a / b of numpy scalars (a, b >= 0): 0/0 is nan
TrueDiv(a, b) ==
    IF b = 0 THEN NaN
    ELSE LET g == GCD(a, b) IN [num |-> a \div g, den |-> b \div g]

\* ------------------------------------------------------------ ndarrays
\* the 0-based (z, y, x) indices of a shape
Coords(shape) == (0 .. shape[1] - 1) \X (0 .. shape[2] - 1) \X (0 .. shape[3] - 1)

\* the number of elements of a shape
Size(shape) == shape[1] * shape[2] * shape[3]

\* the position in data of the element at index c
Flat(shape, c) == (c[1] * shape[2] + c[2]) * shape[3] + c[3] + 1

\* the index of the k-th element of data
CIndex(shape, k) ==
    << (k - 1) \div (shape[2] * shape[3]),
       ((k - 1) \div shape[3]) % shape[2],
       (k - 1) % shape[3] >>

\* a[c]
At(a, c) == a.data[Flat(a.shape, c)]

\* np.zeros(shape)
np_zeros(shape) == [shape |-> shape, data |-> [k \in 1 .. Size(shape) |-> 0]]

\* a[lo[1]:hi[1], lo[2]:hi[2], lo[3]:hi[3]] = v
SetBlock(a, lo, hi, v) ==
    [shape |-> a.shape,
     data  |-> [k \in 1 .. Size(a.shape) |->
                  LET c == CIndex(a.shape, k)
                  IN  IF \A i \in 1 .. 3 : lo[i] <= c[i] /\ c[i] < hi[i]
                      THEN v ELSE a.data[k]]]

\* (mask == label)
EqualTo(mask, label) ==
    [shape |-> mask.shape,
     data  |-> [k \in 1 .. Size(mask.shape) |-> mask.data[k] = label]]

\* boolean array .astype(np.uint8)
AsUint8(b) ==
    [shape |-> b.shape,
     data  |-> [k \in 1 .. Size(b.shape) |-> IF b.data[k] THEN 1 ELSE 0]]

\* np.sum of a boolean array: the number of True entries
np_sum(b) == Cardinality({k \in 1 .. Size(b.shape) : b.data[k]})

RECURSIVE SortAscending(_)
SortAscending(S) ==
    IF S = {} THEN << >>
    ELSE LET m == CHOOSE x \in S : \A y \in S : x <= y
         IN  <<m>> \o SortAscending(S \ {m})

\* np.unique without its ordering guarantee: the distinct values, largest first
np_unique_descending(a) ==
    LET asc == SortAscending({a.data[k] : k \in 1 .. Size(a.shape)})
    IN  [i \in 1 .. Len(asc) |-> asc[Len(asc) + 1 - i]]

\* np.unique(a): the sorted distinct values of a
np_unique(a) == SortAscending({a.data[k] : k \in 1 .. Size(a.shape)})

\* np.argwhere(b): the indices of the True entries, in C order
np_argwhere(b) ==
    LET hits == SelectSeq([k \in 1 .. Size(b.shape) |-> k], LAMBDA k : b.data[k])
    IN  [j \in 1 .. Len(hits) |-> CIndex(b.shape, hits[j])]

RECURSIVE SumFn(_, _, _)
SumFn(f, lo, hi) ==
    IF lo > hi THEN 0
    ELSE IF lo = hi THEN f[lo]
    ELSE LET mid == (lo + hi) \div 2
         IN  SumFn(f, lo, mid) + SumFn(f, mid + 1, hi)

\* spacing[::-1]
Reversed(spacing) == <<spacing[3], spacing[2], spacing[1]>>

\* -------------------------------------------------------------- state
VARIABLES
    sitk,         \* module global: SimpleITK, or None when the import failed
    sp_ndimage,   \* module global: scipy.ndimage, or None when the import failed
    mask,         \* the label volume the caller holds and hands to the engine
    op,           \* the function or route that ran last ("none" before any call)
    label,        \* the label argument of a direct per-label call
    organ_names,  \* the name table the caller holds and hands to quantify_segmentation
    spacing,      \* the (z, y, x) spacing the caller holds and hands to the engine
    raises,       \* whether the optional library calls raised during the call
    results,      \* the list returned by quantify_segmentation
    ret,          \* the value returned (or the exception raised) by the last call
    file,         \* the image file written by save_mask_as_nrrd / save_mask_as_nifti
    db,           \* Firestore: collection name -> (document id -> document)
    bucket,       \* Firebase Storage: blob path -> content
    uuid_count,   \* the number of uuid4 values drawn so far
    request,      \* the HTTP request (or pipeline call) being served
    client,       \* the SlicerClient object
    filesystem,   \* the paths that are regular files (os.path.isfile)
    subprocess_runs,  \* the subprocess.run calls made so far
    volume,       \* the CT volume (Z, Y, X) the segmentation script has read
    slice_detections,  \* detect_volume's result: one list of detections per slice
    bbox_3d,      \* the box returned by aggregate_to_3d_bbox, or the full-volume box
    roi_volume    \* the region the script hands on to the segmenter

engine_vars == <<sitk, sp_ndimage, mask, label, organ_names, spacing, raises, results, file>>
backend_vars == <<db, bucket, uuid_count, request>>
slicer_vars == <<client, filesystem, subprocess_runs>>
detector_vars == <<volume, slice_detections, bbox_3d, roi_volume>>

vars == <<engine_vars, op, ret, backend_vars, slicer_vars, detector_vars>>

\* compute_organ_volume with the x spacing left out of the voxel volume
compute_organ_volume_drops_x(m, l, sp) ==
    LET binary_mask  == EqualTo(m, l)
        num_voxels   == np_sum(binary_mask)
        voxel_volume == sp[1] * sp[2]
    IN  num_voxels * voxel_volume

\* ------------------------------------------------ compute_organ_volume
compute_organ_volume(m, l, sp) ==
    LET binary_mask  == EqualTo(m, l)
        num_voxels   == np_sum(binary_mask)
        voxel_volume == sp[1] * sp[2] * sp[3]
    IN  num_voxels * voxel_volume

\* count_axis_faces counting only the faces that leave the label (a > b)
count_axis_faces_one_sided(binary_mask, axis) ==
    LET shp   == binary_mask.shape
        ashp  == [i \in 1 .. 3 |-> IF i = axis + 1 THEN shp[i] - 1 ELSE shp[i]]
        nxt(c) == [i \in 1 .. 3 |-> IF i = axis + 1 THEN c[i] + 1 ELSE c[i]]
    IN  Cardinality({c \in Coords(ashp) : At(binary_mask, c) > At(binary_mask, nxt(c))})

\* the face count over the volume padded with background: a labelled voxel in
\* the first or last layer along the axis adds its outer face
count_axis_faces_with_border(binary_mask, axis) ==
    LET shp   == binary_mask.shape
        ashp  == [i \in 1 .. 3 |-> IF i = axis + 1 THEN shp[i] - 1 ELSE shp[i]]
        nxt(c) == [i \in 1 .. 3 |-> IF i = axis + 1 THEN c[i] + 1 ELSE c[i]]
    IN  Cardinality({c \in Coords(ashp) : At(binary_mask, c) # At(binary_mask, nxt(c))})
        + Cardinality({c \in Coords(shp) : c[axis + 1] = 0 /\ At(binary_mask, c) # 0})
        + Cardinality({c \in Coords(shp) :
                          c[axis + 1] = shp[axis + 1] - 1 /\ At(binary_mask, c) # 0})

\* ------------------------------------------------ compute_surface_area
\* binary_mask[:-1] against binary_mask[1:] along the axis (0 = z, 1 = y, 2 = x):
\* np.count_nonzero(a != b)
count_axis_faces(binary_mask, axis) ==
    LET shp   == binary_mask.shape
        ashp  == [i \in 1 .. 3 |-> IF i = axis + 1 THEN shp[i] - 1 ELSE shp[i]]
        nxt(c) == [i \in 1 .. 3 |-> IF i = axis + 1 THEN c[i] + 1 ELSE c[i]]
    IN  Cardinality({c \in Coords(ashp) : At(binary_mask, c) # At(binary_mask, nxt(c))})

\* the fallback with the z and x cross-sections exchanged
surface_area_fallback_swapped(binary_mask, sp) ==
    LET sz == sp[1]
        sy == sp[2]
        sx == sp[3]
        faces_z == count_axis_faces(binary_mask, 0)
        faces_y == count_axis_faces(binary_mask, 1)
        faces_x == count_axis_faces(binary_mask, 2)
        area_z == faces_z * (sz * sy)
        area_y == faces_y * (sz * sx)
        area_x == faces_x * (sy * sx)
    IN  area_x + area_y + area_z

surface_area_fallback(binary_mask, sp) ==
    LET sz == sp[1]
        sy == sp[2]
        sx == sp[3]
        faces_z == count_axis_faces(binary_mask, 0)
        faces_y == count_axis_faces(binary_mask, 1)
        faces_x == count_axis_faces(binary_mask, 2)
        area_z == faces_z * (sy * sx)
        area_y == faces_y * (sz * sx)
        area_x == faces_x * (sz * sy)
    IN  area_x + area_y + area_z

\* LabelShapeStatisticsImageFilter.GetPerimeter(1) of the image built from the
\* binary mask with SetSpacing(sp): the library's value, kept symbolic
sitk_GetPerimeter(binary_mask, sp) ==
    [sitk |-> "GetPerimeter", label |-> 1, spacing |-> sp]

\* the except clause returns 0.0 instead of falling through to the face count
compute_surface_area_zero_on_error(m, l, sp, rs) ==
    LET binary_mask == AsUint8(EqualTo(m, l))
    IN  IF sitk # None
        THEN IF rs.sitk THEN 0 ELSE sitk_GetPerimeter(binary_mask, Reversed(sp))
        ELSE surface_area_fallback(binary_mask, sp)

compute_surface_area(m, l, sp, rs) ==
    LET binary_mask == AsUint8(EqualTo(m, l))
    IN  IF sitk # None /\ ~rs.sitk
        THEN sitk_GetPerimeter(binary_mask, Reversed(sp))
        ELSE surface_area_fallback(binary_mask, sp)

\* ---------------------------------------------------- compute_centroid
\* scipy.ndimage.center_of_mass(input): per axis, sum(input * grid) / sum(input)
center_of_mass(input) ==
    LET normalizer == np_sum(input)
        n == Size(input.shape)
        weighted(d) ==
            SumFn([k \in 1 .. n |-> IF input.data[k] THEN CIndex(input.shape, k)[d] ELSE 0],
                  1, n)
    IN  [d \in 1 .. 3 |-> TrueDiv(weighted(d), normalizer)]

\* the coordinate mean taken with integer (floor) division
centroid_fallback_floor(binary_mask) ==
    LET coords == np_argwhere(binary_mask)
    IN  IF Len(coords) = 0
        THEN <<Float(0), Float(0), Float(0)>>
        ELSE [d \in 1 .. 3 |->
                Float(SumFn([k \in 1 .. Len(coords) |-> coords[k][d]], 1, Len(coords))
                      \div Len(coords))]

\* coords.mean(axis=0) of the argwhere rows, guarded by coords.size == 0
centroid_fallback(binary_mask) ==
    LET coords == np_argwhere(binary_mask)
    IN  IF Len(coords) = 0
        THEN <<Float(0), Float(0), Float(0)>>
        ELSE [d \in 1 .. 3 |->
                TrueDiv(SumFn([k \in 1 .. Len(coords) |-> coords[k][d]], 1, Len(coords)),
                        Len(coords))]

compute_centroid(m, l, rs) ==
    LET binary_mask == EqualTo(m, l)
    IN  IF sp_ndimage # None /\ ~rs.scipy
        THEN center_of_mass(binary_mask)
        ELSE centroid_fallback(binary_mask)

\* ------------------------------------------------ compute_bounding_box
AxisMin(coords, d) ==
    CHOOSE v \in {coords[k][d] : k \in 1 .. Len(coords)} :
        \A k \in 1 .. Len(coords) : v <= coords[k][d]

AxisMax(coords, d) ==
    CHOOSE v \in {coords[k][d] : k \in 1 .. Len(coords)} :
        \A k \in 1 .. Len(coords) : v >= coords[k][d]

\* compute_bounding_box with exclusive (slice-style) maxima
compute_bounding_box_exclusive(m, l) ==
    LET binary_mask == EqualTo(m, l)
        coords == np_argwhere(binary_mask)
    IN  IF Len(coords) = 0
        THEN None
        ELSE [z_min |-> AxisMin(coords, 1), y_min |-> AxisMin(coords, 2),
              x_min |-> AxisMin(coords, 3),
              z_max |-> AxisMax(coords, 1) + 1, y_max |-> AxisMax(coords, 2) + 1,
              x_max |-> AxisMax(coords, 3) + 1]

\* compute_bounding_box without the empty check: a zero box for an absent label
compute_bounding_box_degenerate(m, l) ==
    LET binary_mask == EqualTo(m, l)
        coords == np_argwhere(binary_mask)
    IN  IF Len(coords) = 0
        THEN [z_min |-> 0, y_min |-> 0, x_min |-> 0, z_max |-> 0, y_max |-> 0, x_max |-> 0]
        ELSE [z_min |-> AxisMin(coords, 1), y_min |-> AxisMin(coords, 2),
              x_min |-> AxisMin(coords, 3),
              z_max |-> AxisMax(coords, 1), y_max |-> AxisMax(coords, 2),
              x_max |-> AxisMax(coords, 3)]

compute_bounding_box(m, l) ==
    LET binary_mask == EqualTo(m, l)
        coords == np_argwhere(binary_mask)
    IN  IF Len(coords) = 0
        THEN None
        ELSE [z_min |-> AxisMin(coords, 1), y_min |-> AxisMin(coords, 2),
              x_min |-> AxisMin(coords, 3),
              z_max |-> AxisMax(coords, 1), y_max |-> AxisMax(coords, 2),
              x_max |-> AxisMax(coords, 3)]

\* ----------------------------------------------- quantify_segmentation
\* organ_names.get(label, "unknown"): the fallback name ignores the label
organ_name_of_unknown(names, l) ==
    IF l \in DOMAIN names THEN names[l] ELSE "unknown"

\* organ_names.get(label, f"organ_{label}")
organ_name_of(names, l) ==
    IF l \in DOMAIN names THEN names[l] ELSE "organ_" \o ToString(l)

\* the loop body with num_voxels counting every non-background voxel
quantify_label_counts_foreground(m, names, sp, rs, l) ==
    [organ_name   |-> organ_name_of(names, l),
     label        |-> l,
     volume       |-> compute_organ_volume(m, l, sp),
     surface_area |-> compute_surface_area(m, l, sp, rs),
     centroid     |-> compute_centroid(m, l, rs),
     bounding_box |-> compute_bounding_box(m, l),
     additional_metrics |->
         [num_voxels |-> Cardinality({k \in 1 .. Size(m.shape) : m.data[k] # 0})]]

\* the body of the loop for one label
quantify_label(m, names, sp, rs, l) ==
    [organ_name   |-> organ_name_of(names, l),
     label        |-> l,
     volume       |-> compute_organ_volume(m, l, sp),
     surface_area |-> compute_surface_area(m, l, sp, rs),
     centroid     |-> compute_centroid(m, l, rs),
     bounding_box |-> compute_bounding_box(m, l),
     additional_metrics |-> [num_voxels |-> np_sum(EqualTo(m, l))]]

\* the loop without the background check
quantify_segmentation_keeps_background(m, names, sp, rs) ==
    LET unique_labels == np_unique(m)
    IN  [i \in 1 .. Len(unique_labels) |-> quantify_label(m, names, sp, rs, unique_labels[i])]

\* the labels taken from 1 .. mask.max(): max() of an empty array raises
quantify_segmentation_by_max(m, names, sp, rs) ==
    IF Size(m.shape) = 0 THEN Raised("ValueError")
    ELSE LET present == {m.data[k] : k \in 1 .. Size(m.shape)}
             top == CHOOSE v \in present : \A w \in present : w <= v
         IN  [i \in 1 .. top |-> quantify_label(m, names, sp, rs, i)]

\* for label in unique_labels: skip 0 (continue), append the label's record
quantify_segmentation(m, names, sp, rs) ==
    LET unique_labels == np_unique(m)
        kept == SelectSeq(unique_labels, LAMBDA l : l # 0)
    IN  [i \in 1 .. Len(kept) |-> quantify_label(m, names, sp, rs, kept[i])]

\* ------------------------------------------------------------- inputs
\* a volume small enough to take every labelling with background and two organs
SmallShape == <<1, 2, 3>>
SmallLabels == {0, 1, 2}
SmallVolumes ==
    {[shape |-> SmallShape, data |-> d] : d \in [1 .. Size(SmallShape) -> SmallLabels]}

\* tests/test_postprocess.py: zeros with one k x k x k block set to a label,
\* mask[z:z+k, y:y+k, x:x+k] = l, the block lying inside the volume
BlockShape == <<Dim, Dim, Dim>>
BlockVolumes ==
    UNION {{SetBlock(np_zeros(BlockShape), lo, [i \in 1 .. 3 |-> lo[i] + k], l) :
               lo \in Coords([i \in 1 .. 3 |-> Dim - k + 1]), l \in 1 .. MaxLabel} :
           k \in 1 .. Dim}

\* mask = np.zeros((10, 10, 10)); mask[2:5, 2:5, 2:5] = 1
TestVolume == SetBlock(np_zeros(<<10, 10, 10>>), <<2, 2, 2>>, <<5, 5, 5>>, 1)

EmptyVolume == np_zeros(<<0, 0, 0>>)

\* one voxel of label 7 beside one background voxel
SevenVolume == SetBlock(np_zeros(<<1, 1, 2>>), <<0, 0, 1>>, <<1, 1, 2>>, 7)

\* labels beyond one byte: voxels of labels 1, 256 and 257 side by side
WideVolume == [shape |-> <<1, 1, 3>>, data |-> <<1, 256, 257>>]

Volumes ==
    SmallVolumes \cup BlockVolumes \cup {TestVolume, EmptyVolume, SevenVolume, WideVolume}

EmptyNames == << >>
\* tests/test_postprocess.py: organ_names = {1: 'organ1'}
TestNames == 1 :> "organ1"
\* a table that also names the background
BackgroundNames == (0 :> "background") @@ (1 :> "organ1")
OrganTables == {TestNames, BackgroundNames}

Spacings == {<<1, 1, 1>>} \cup {<<s, s + 1, s + 2>> : s \in 1 .. MaxSpacing}

\* the (organ_names, spacing) pairs a caller holds: every table with every spacing,
\* and the empty table with the default spacing
CallArguments == (OrganTables \X Spacings) \cup {<<EmptyNames, <<1, 1, 1>>>>}

Labels == 0 .. MaxLabel

NoRaise == [sitk |-> FALSE, scipy |-> FALSE]

\* a library that was not imported is never called
RaiseChoices ==
    {rs \in [sitk : BOOLEAN, scipy : BOOLEAN] :
        /\ (sitk = None => ~rs.sitk)
        /\ (sp_ndimage = None => ~rs.scipy)}

\* --------------------------------------------------------- mask writers
\* integer array .astype(np.uint8)
astype_uint8(a) ==
    [shape |-> a.shape, data |-> [k \in 1 .. Size(a.shape) |-> a.data[k] % 256]]

\* sitk.GetImageFromArray(arr) after SetSpacing(sp): sp is in SimpleITK's (x, y, z)
sitk_Image(arr, sp) == [array |-> arr, spacing |-> sp]

\* save_mask_as_nrrd with the spacing handed over in numpy order
save_mask_as_nrrd_keeps_order(m, output_path, sp) ==
    [path |-> output_path, image |-> sitk_Image(astype_uint8(m), sp)]

\* the file sitk.WriteImage leaves at output_path
save_mask_as_nrrd(m, output_path, sp) ==
    [path |-> output_path, image |-> sitk_Image(astype_uint8(m), Reversed(sp))]

save_mask_as_nifti(m, output_path, sp) ==
    [path |-> output_path, image |-> sitk_Image(astype_uint8(m), Reversed(sp))]

\* -------------------------------------------------------- engine actions
\* the backend and the Slicer client at rest
BackendIdle ==
    /\ db = [segmentations |-> << >>, quantification_results |-> << >>,
             kamiak_jobs |-> << >>, scans |-> << >>, annotations |-> << >>]
    /\ bucket = << >>
    /\ uuid_count = 0
    /\ request = None

SlicerIdle ==
    /\ client = None
    /\ filesystem = {}
    /\ subprocess_runs = << >>

\* no scan read by the segmentation script
DetectorIdle ==
    /\ volume = None
    /\ slice_detections = None
    /\ bbox_3d = None
    /\ roi_volume = None

Init ==
    /\ sitk \in {None, SimpleITK}
    /\ sp_ndimage \in {None, scipy_ndimage}
    /\ mask \in Volumes
    /\ \E a \in CallArguments : organ_names = a[1] /\ spacing = a[2]
    /\ op = "none"
    /\ label = 0
    /\ raises = NoRaise
    /\ results = << >>
    /\ ret = None
    /\ file = None
    /\ BackendIdle
    /\ SlicerIdle
    /\ DetectorIdle

\* the binary mask of the last label is built in place (mask[mask != label] = 0)
Quantify_binarises_in_place ==
    \E rs \in RaiseChoices :
        /\ op = "none"
        /\ op' = "quantify_segmentation"
        /\ raises' = rs
        /\ results' = quantify_segmentation(mask, organ_names, spacing, rs)
        /\ mask' = IF Len(results') = 0 THEN mask
                   ELSE AsUint8(EqualTo(mask, results'[Len(results')].label))
        /\ UNCHANGED <<sitk, sp_ndimage, organ_names, spacing, label, ret, file>>
        /\ UNCHANGED <<backend_vars, slicer_vars, detector_vars>>

Quantify ==
    \E rs \in RaiseChoices :
        /\ op = "none"
        /\ op' = "quantify_segmentation"
        /\ raises' = rs
        /\ results' = quantify_segmentation(mask, organ_names, spacing, rs)
        /\ UNCHANGED <<sitk, sp_ndimage, mask, organ_names, spacing, label, ret, file>>
        /\ UNCHANGED <<backend_vars, slicer_vars, detector_vars>>

Centroid ==
    \E l \in Labels, rs \in RaiseChoices :
        /\ op = "none"
        /\ ~rs.sitk
        /\ op' = "compute_centroid"
        /\ label' = l
        /\ raises' = rs
        /\ ret' = compute_centroid(mask, l, rs)
        /\ UNCHANGED <<sitk, sp_ndimage, mask, organ_names, spacing, results, file>>
        /\ UNCHANGED <<backend_vars, slicer_vars, detector_vars>>

BoundingBox ==
    \E l \in Labels :
        /\ op = "none"
        /\ op' = "compute_bounding_box"
        /\ label' = l
        /\ ret' = compute_bounding_box(mask, l)
        /\ UNCHANGED <<sitk, sp_ndimage, mask, organ_names, spacing, raises, results, file>>
        /\ UNCHANGED <<backend_vars, slicer_vars, detector_vars>>

\* sitk is used unguarded: with the import failed the call dies on None
SaveNrrd ==
    /\ op = "none"
    /\ op' = "save_mask_as_nrrd"
    /\ IF sitk = None
       THEN ret' = Raised("AttributeError") /\ file' = file
       ELSE ret' = None /\ file' = save_mask_as_nrrd(mask, "mask.nrrd", spacing)
    /\ UNCHANGED <<sitk, sp_ndimage, mask, organ_names, spacing, label, raises, results>>
    /\ UNCHANGED <<backend_vars, slicer_vars, detector_vars>>

SaveNifti ==
    /\ op = "none"
    /\ op' = "save_mask_as_nifti"
    /\ IF sitk = None
       THEN ret' = Raised("AttributeError") /\ file' = file
       ELSE ret' = None /\ file' = save_mask_as_nifti(mask, "mask.nii.gz", spacing)
    /\ UNCHANGED <<sitk, sp_ndimage, mask, organ_names, spacing, label, raises, results>>
    /\ UNCHANGED <<backend_vars, slicer_vars, detector_vars>>

Next == Quantify \/ Centroid \/ BoundingBox \/ SaveNrrd \/ SaveNifti

Spec == Init /\ [][Next]_vars

\* ============================================================ backend
\* ------------------------------------------------------------ bounds
MaxUuid == 3

\* ------------------------------------------------- values and Firestore
\* str(uuid.uuid4()): the n-th value drawn; uuid4 values do not repeat
uuid4(n) == "uuid-" \o ToString(n)

\* datetime.utcnow()
utcnow == [py |-> "datetime"]

HTTPException(status_code, detail) == [status |-> status_code, detail |-> detail]

\* a 200 response with its JSON body
Ok(body) == [status |-> 200, body |-> body]

IsHTTPException(v) == "status" \in DOMAIN v /\ "detail" \in DOMAIN v

\* v is None (compared as text: v may be a string, a number, a list or a dict)
IsNone(v) == ToString(v) = ToString(None)

\* d.get(k) and d.get(k, default)
get(d, k) == IF k \in DOMAIN d THEN d[k] ELSE None
get_default(d, k, default) == IF k \in DOMAIN d THEN d[k] ELSE default

\* db.collection(col).document(id).set(data)
doc_set(store, col, id, data) == [store EXCEPT ![col] = (id :> data) @@ @]

RECURSIVE apply_writes(_, _)
\* the set() calls of a handler, in order
apply_writes(store, writes) ==
    IF writes = << >> THEN store
    ELSE apply_writes(doc_set(store, Head(writes).col, Head(writes).id, Head(writes).data),
                      Tail(writes))

RECURSIVE SeqOf(_)
\* the elements of a set in the order a stream() happens to yield them
SeqOf(S) ==
    IF S = {} THEN << >>
    ELSE LET x == CHOOSE y \in S : TRUE IN <<x>> \o SeqOf(S \ {x})

\* pydantic: every required field of the model is present and not None
Validates(doc, required) == \A k \in required : k \in DOMAIN doc /\ ~IsNone(doc[k])

\* ------------------------------------------------------ authentication
ValidTokens == {"valid"}

\* FirebaseClient.verify_token: the decoded token, or None when verification fails
verify_token(id_token) == IF id_token \in ValidTokens THEN [uid |-> "u1"] ELSE None

RECURSIVE Join(_)
Join(pieces) == IF pieces = << >> THEN "" ELSE Head(pieces) \o Join(Tail(pieces))

\* authorization.split("Bearer ")[-1] of a header given as its pieces, "Bearer "
\* being a piece of its own
split_last(authorization) ==
    LET at == {i \in 1 .. Len(authorization) : authorization[i] = "Bearer "}
        last == IF at = {} THEN 0 ELSE CHOOSE i \in at : \A j \in at : j <= i
    IN  Join(SubSeq(authorization, last + 1, Len(authorization)))

\* not authorization: the header is absent or empty
Falsy(authorization) == IsNone(authorization) \/ Len(authorization) = 0

\* app.deps.verify_auth_token without the check of the decoded token
verify_auth_token_unchecked(authorization) ==
    IF Falsy(authorization) THEN HTTPException(401, "Authorization header missing")
    ELSE verify_token(split_last(authorization))

\* app.deps.verify_auth_token: the decoded token, or the HTTPException raised
verify_auth_token(authorization) ==
    IF Falsy(authorization) THEN HTTPException(401, "Authorization header missing")
    ELSE LET decoded_token == verify_token(split_last(authorization))
         IN  IF IsNone(decoded_token) THEN HTTPException(401, "Invalid token")
             ELSE decoded_token

\* app.main.verify_auth_token: its except clause also catches the "Invalid token"
\* exception and raises 401 "Authentication failed" in its place
main_verify_auth_token(authorization) ==
    IF Falsy(authorization) THEN HTTPException(401, "Authorization header missing")
    ELSE LET decoded_token == verify_token(split_last(authorization))
         IN  IF IsNone(decoded_token) THEN HTTPException(401, "Authentication failed")
             ELSE decoded_token

\* ------------------------------------------------------------ pipeline
\* ORGAN_NAMES of run_yolo10_monai.py
ORGAN_NAMES ==
    (1 :> "digestive_tract") @@ (2 :> "reproductive_organs") @@ (3 :> "neural_tissue")

BucketName == "bucket"

\* MONAISegmenter.compute_metrics(mask)
compute_metrics(m) ==
    LET unique == np_unique(m)
        organs == {unique[i] : i \in 1 .. Len(unique)} \ {0}
        key(l) == "class_" \o ToString(l) \o "_volume"
    IN  [k \in {key(l) : l \in organs} |->
            np_sum(EqualTo(m, CHOOSE l \in organs : key(l) = k))]
        @@ [num_classes |-> Len(unique), unique_labels |-> unique, shape |-> m.shape]

\* the outcome of upload_results_to_firebase when the first ok Firestore writes
\* succeed: the exception of a failed write propagates to the caller
upload_results_to_firebase(store, blobs, count, scan_id, mask_file, metrics, quantification, ok) ==
    LET n == Len(quantification)
        mask_blob_path == "segmentations/" \o scan_id \o "/mask.nrrd"
        mask_url == "gs://" \o BucketName \o "/" \o mask_blob_path
        segmentation_id == uuid4(count + 1)
        segmentation_data ==
            [id |-> segmentation_id, scan_id |-> scan_id, mask_url |-> mask_url,
             model_version |-> "yolov10s_monai_unet_v1", metrics |-> metrics,
             created_at |-> utcnow]
        quant_id(i) == uuid4(count + 1 + i)
        \* {"id": quant_id, "segmentation_id": segmentation_id, **quant}
        quant_data(i) ==
            quantification[i] @@ [id |-> quant_id(i), segmentation_id |-> segmentation_id]
        writes ==
            <<[col |-> "segmentations", id |-> segmentation_id, data |-> segmentation_data]>>
            \o [i \in 1 .. n |->
                   [col |-> "quantification_results", id |-> quant_id(i), data |-> quant_data(i)]]
    IN  [db |-> apply_writes(store, SubSeq(writes, 1, ok)),
         bucket |-> (mask_blob_path :> mask_file) @@ blobs,
         uuid_count |-> count + (IF ok < n + 1 THEN ok + 1 ELSE n + 1),
         ret |-> IF ok < n + 1 THEN Raised("GoogleAPICallError") ELSE segmentation_id]

\* ------------------------------------------------------ results router
\* upload_results with the quantification documents written before the
\* segmentation document
upload_results_segmentation_last(store, count, result, ok) ==
    LET n == Len(result.quantification)
        segmentation_id == uuid4(count + 1)
        segmentation_data ==
            [id |-> segmentation_id, scan_id |-> result.scan_id,
             mask_url |-> result.segmentation_url, volume_url |-> result.volume_url,
             model_version |-> result.model_version, metrics |-> result.metrics,
             created_at |-> utcnow]
        quant_id(i) == uuid4(count + 1 + i)
        quant_data(i) ==
            LET quant == result.quantification[i]
            IN  [id |-> quant_id(i), segmentation_id |-> segmentation_id,
                 organ_name |-> get(quant, "organ_name"),
                 volume |-> get(quant, "volume"),
                 surface_area |-> get(quant, "surface_area"),
                 centroid |-> get(quant, "centroid"),
                 additional_metrics |-> get_default(quant, "additional_metrics", << >>)]
        writes ==
            [i \in 1 .. n |->
                [col |-> "quantification_results", id |-> quant_id(i), data |-> quant_data(i)]]
            \o <<[col |-> "segmentations", id |-> segmentation_id, data |-> segmentation_data]>>
    IN  [db |-> apply_writes(store, SubSeq(writes, 1, ok)),
         uuid_count |-> count + (IF ok < n + 1 THEN ok + 1 ELSE n + 1),
         response |->
             IF ok < n + 1 THEN HTTPException(500, "Failed to upload results")
             ELSE Ok([message |-> "Results uploaded successfully",
                      segmentation_id |-> segmentation_id,
                      quantification_ids |-> [i \in 1 .. n |-> quant_id(i)]])]

\* the body of upload_results when the first ok Firestore writes succeed; a failed
\* write is caught and answered with 500
upload_results(store, count, result, ok) ==
    LET n == Len(result.quantification)
        segmentation_id == uuid4(count + 1)
        segmentation_data ==
            [id |-> segmentation_id, scan_id |-> result.scan_id,
             mask_url |-> result.segmentation_url, volume_url |-> result.volume_url,
             model_version |-> result.model_version, metrics |-> result.metrics,
             created_at |-> utcnow]
        quant_id(i) == uuid4(count + 1 + i)
        quant_data(i) ==
            LET quant == result.quantification[i]
            IN  [id |-> quant_id(i), segmentation_id |-> segmentation_id,
                 organ_name |-> get(quant, "organ_name"),
                 volume |-> get(quant, "volume"),
                 surface_area |-> get(quant, "surface_area"),
                 centroid |-> get(quant, "centroid"),
                 additional_metrics |-> get_default(quant, "additional_metrics", << >>)]
        writes ==
            <<[col |-> "segmentations", id |-> segmentation_id, data |-> segmentation_data]>>
            \o [i \in 1 .. n |->
                   [col |-> "quantification_results", id |-> quant_id(i), data |-> quant_data(i)]]
    IN  [db |-> apply_writes(store, SubSeq(writes, 1, ok)),
         uuid_count |-> count + (IF ok < n + 1 THEN ok + 1 ELSE n + 1),
         response |->
             IF ok < n + 1 THEN HTTPException(500, "Failed to upload results")
             ELSE Ok([message |-> "Results uploaded successfully",
                      segmentation_id |-> segmentation_id,
                      quantification_ids |-> [i \in 1 .. n |-> quant_id(i)]])]

\* the fields a response model keeps of a document (absent optional fields: None)
Project(doc, fields) == [k \in fields |-> get(doc, k)]

QuantificationResultFields ==
    {"id", "segmentation_id", "organ_name", "volume", "surface_area", "centroid",
     "additional_metrics"}
QuantificationResultRequired ==
    {"id", "segmentation_id", "organ_name", "volume", "surface_area", "centroid"}

SegmentationFields ==
    {"id", "scan_id", "mask_url", "volume_url", "model_version", "metrics", "created_at"}
SegmentationRequired ==
    {"id", "scan_id", "mask_url", "model_version", "metrics", "created_at"}

KamiakJobFields ==
    {"id", "scan_ids", "job_script", "status", "slurm_id", "submitted_at", "completed_at",
     "log_output"}
KamiakJobRequired == {"id", "scan_ids", "job_script", "status", "submitted_at"}

\* GET /quantification/{segmentation_id}: a document that does not fit the
\* response model raises inside the try and is answered with 500
get_quantification_results(store, segmentation_id) ==
    LET col == store.quantification_results
        ids == SeqOf({id \in DOMAIN col : col[id].segmentation_id = segmentation_id})
    IN  IF \A i \in 1 .. Len(ids) : Validates(col[ids[i]], QuantificationResultRequired)
        THEN Ok([i \in 1 .. Len(ids) |-> Project(col[ids[i]], QuantificationResultFields)])
        ELSE HTTPException(500, "Failed to get quantification results")

\* GET /segmentations/{segmentation_id}
get_segmentation(store, segmentation_id) ==
    IF segmentation_id \notin DOMAIN store.segmentations
    THEN HTTPException(404, "Segmentation not found")
    ELSE IF Validates(store.segmentations[segmentation_id], SegmentationRequired)
         THEN Ok(Project(store.segmentations[segmentation_id], SegmentationFields))
         ELSE HTTPException(500, "Failed to get segmentation")

\* GET /jobs/{job_id}
get_job(store, job_id) ==
    IF job_id \notin DOMAIN store.kamiak_jobs
    THEN HTTPException(404, "Job not found")
    ELSE IF Validates(store.kamiak_jobs[job_id], KamiakJobRequired)
         THEN Ok(Project(store.kamiak_jobs[job_id], KamiakJobFields))
         ELSE HTTPException(500, "Failed to get job")

\* ------------------------------------------------------ backend inputs
\* segmentation masks of a pipeline run: one organ, and two organs of which one
\* has no entry in ORGAN_NAMES
OneOrganMask == SetBlock(np_zeros(<<2, 2, 2>>), <<0, 0, 0>>, <<1, 1, 1>>, 1)
TwoOrganMask == SetBlock(OneOrganMask, <<1, 1, 1>>, <<2, 2, 2>>, 4)
PipelineMasks == {OneOrganMask, TwoOrganMask}

ScanIds == {"scan-1", "scan-2"}

\* Authorization headers: absent, empty, bearer with a token that verifies, bearer
\* with one that does not, and the bare token without the "Bearer " prefix
AuthorizationChoices ==
    <<None, << >>, <<"Bearer ", "valid">>, <<"Bearer ", "invalid">>, <<"valid">>>>

\* the entry of test_upload_results_and_fetch, and an entry with the name only
TestEntry ==
    [organ_name |-> "organ1", volume |-> Float(1), surface_area |-> Float(2),
     centroid |-> <<1, 2, 3>>]
NameOnlyEntry == [organ_name |-> "organ1"]

\* the entries a client may post: the two above and the records of the engine
EntryChoices == <<TestEntry, NameOnlyEntry>> \o results

\* the quantification lists of the model: up to two entries, in the order above
QuantificationLists ==
    LET I == 1 .. Len(EntryChoices)
    IN  {<< >>} \cup {<<EntryChoices[i]>> : i \in I}
                \cup {<<EntryChoices[p[1]], EntryChoices[p[2]]>> :
                         p \in {q \in I \X I : q[1] # q[2]}}

\* a ResultUpload body, as in test_upload_results_and_fetch
ResultUpload(scan_id, quantification) ==
    [scan_id |-> scan_id,
     segmentation_url |-> "segmentations/scan/mask.nrrd",
     volume_url |-> "segmentations/scan/volume.nrrd",
     model_version |-> "v1",
     metrics |-> [dice |-> TrueDiv(9, 10)],
     quantification |-> quantification]

\* document ids a client may ask for
DocumentIds == {uuid4(k) : k \in 1 .. MaxUuid}

\* ----------------------------------------------------- backend actions
\* the pipeline after stage 7 (quantification done, mask saved), backend empty
ApiInit ==
    /\ sitk = SimpleITK
    /\ sp_ndimage = scipy_ndimage
    /\ mask \in PipelineMasks
    /\ organ_names = ORGAN_NAMES
    /\ spacing = <<1, 1, 1>>
    /\ raises = NoRaise
    /\ results = quantify_segmentation(mask, organ_names, spacing, raises)
    /\ file = save_mask_as_nrrd(mask, "results/scan_mask.nrrd", <<1, 1, 1>>)
    /\ label = 0
    /\ op = "none"
    /\ ret = None
    /\ BackendIdle
    /\ SlicerIdle
    /\ DetectorIdle

\* run_pipeline stage 8: segmentation_id = upload_results_to_firebase(...), or
\* the exception of the call
UploadResultsToFirebase ==
    \E scan_id \in ScanIds, ok \in 0 .. Len(results) + 1 :
        LET out == upload_results_to_firebase(db, bucket, uuid_count, scan_id, file,
                                              compute_metrics(mask), results, ok)
        IN  /\ uuid_count + 1 + Len(results) <= MaxUuid
            /\ op' = "upload_results_to_firebase"
            /\ request' = [scan_id |-> scan_id, quantification |-> results]
            /\ db' = out.db
            /\ bucket' = out.bucket
            /\ uuid_count' = out.uuid_count
            /\ ret' = IF ok < Len(results) + 1 THEN out.ret
                      ELSE [segmentation_id |-> out.ret]
            /\ UNCHANGED <<engine_vars, slicer_vars, detector_vars>>

\* POST /api/results/upload; a rejected request never reaches the handler, so
\* its body is not recorded
UploadResults ==
    \E a \in DOMAIN AuthorizationChoices :
        LET authorization == AuthorizationChoices[a]
            user == verify_auth_token(authorization)
        IN  /\ op' = "upload_results"
            /\ IF IsHTTPException(user)
               THEN /\ request' = [authorization |-> authorization, user |-> user]
                    /\ ret' = user
                    /\ UNCHANGED <<db, uuid_count>>
               ELSE \E scan_id \in ScanIds, quantification \in QuantificationLists :
                      \E ok \in 0 .. Len(quantification) + 1 :
                        LET result == ResultUpload(scan_id, quantification)
                            out == upload_results(db, uuid_count, result, ok)
                        IN  /\ uuid_count + 1 + Len(quantification) <= MaxUuid
                            /\ request' = [authorization |-> authorization,
                                           user |-> user, body |-> result]
                            /\ ret' = out.response
                            /\ db' = out.db
                            /\ uuid_count' = out.uuid_count
            /\ UNCHANGED <<bucket, engine_vars, slicer_vars, detector_vars>>

\* GET /api/quantification/{segmentation_id}
GetQuantificationResults ==
    \E a \in DOMAIN AuthorizationChoices :
        LET authorization == AuthorizationChoices[a]
            user == verify_auth_token(authorization)
        IN  /\ op' = "get_quantification_results"
            /\ IF IsHTTPException(user)
               THEN /\ request' = [authorization |-> authorization, user |-> user]
                    /\ ret' = user
               ELSE \E segmentation_id \in DocumentIds :
                        /\ request' = [authorization |-> authorization, user |-> user,
                                       segmentation_id |-> segmentation_id]
                        /\ ret' = get_quantification_results(db, segmentation_id)
            /\ UNCHANGED <<db, bucket, uuid_count, engine_vars, slicer_vars, detector_vars>>

\* GET /api/segmentations/{segmentation_id}
GetSegmentation ==
    \E a \in DOMAIN AuthorizationChoices :
        LET authorization == AuthorizationChoices[a]
            user == verify_auth_token(authorization)
        IN  /\ op' = "get_segmentation"
            /\ IF IsHTTPException(user)
               THEN /\ request' = [authorization |-> authorization, user |-> user]
                    /\ ret' = user
               ELSE \E segmentation_id \in DocumentIds :
                        /\ request' = [authorization |-> authorization, user |-> user,
                                       segmentation_id |-> segmentation_id]
                        /\ ret' = get_segmentation(db, segmentation_id)
            /\ UNCHANGED <<db, bucket, uuid_count, engine_vars, slicer_vars, detector_vars>>

\* GET /api/jobs/{job_id}: jobs.py takes its guard from app.main
GetJob ==
    \E a \in DOMAIN AuthorizationChoices :
        LET authorization == AuthorizationChoices[a]
            user == main_verify_auth_token(authorization)
        IN  /\ op' = "get_job"
            /\ IF IsHTTPException(user)
               THEN /\ request' = [authorization |-> authorization, user |-> user]
                    /\ ret' = user
               ELSE \E job_id \in DocumentIds :
                        /\ request' = [authorization |-> authorization, user |-> user,
                                       job_id |-> job_id]
                        /\ ret' = get_job(db, job_id)
            /\ UNCHANGED <<db, bucket, uuid_count, engine_vars, slicer_vars, detector_vars>>

ApiNext ==
    UploadResultsToFirebase \/ UploadResults \/ GetQuantificationResults
        \/ GetSegmentation \/ GetJob

ApiSpec == ApiInit /\ [][ApiNext]_vars

\* ========================================================== job routes
\* (backend/app/routers/jobs.py, annotations.py, scans.py)
MaxJobUuid == 2

\* models.ProcessingStatus and models.JobStatus, by value
ProcessingStatus ==
    {"uploaded", "annotating", "annotated", "queued", "processing", "completed", "failed"}
JobStatus == {"pending", "running", "completed", "failed"}

\* Firestore writes of a handler, in order: set creates or replaces the
\* document, update merges the fields into a document that must exist
SetDoc(col, id, data) == [kind |-> "set", col |-> col, id |-> id, data |-> data]
UpdateDoc(col, id, data) == [kind |-> "update", col |-> col, id |-> id, data |-> data]

\* document(id).update(fields)
doc_update(store, col, id, fields) ==
    [store EXCEPT ![col] = [@ EXCEPT ![id] = fields @@ @]]

RECURSIVE run_writes(_, _, _)
\* the store after the writes, and whether all were made: a write fails when
\* the service fails (after ok writes) or an update finds no document (NotFound)
run_writes(store, writes, ok) ==
    IF writes = << >> THEN [db |-> store, done |-> TRUE]
    ELSE LET w == Head(writes)
         IN  IF ok = 0 \/ (w.kind = "update" /\ w.id \notin DOMAIN store[w.col])
             THEN [db |-> store, done |-> FALSE]
             ELSE run_writes(IF w.kind = "set" THEN doc_set(store, w.col, w.id, w.data)
                             ELSE doc_update(store, w.col, w.id, w.data),
                             Tail(writes), ok - 1)

\* generate_slurm_script: the script by what it is made of
generate_slurm_script(job_id, scan_ids, job_config) ==
    [job_name |-> job_config.job_name, partition |-> job_config.partition,
     time |-> job_config.time_limit, array |-> <<1, Len(scan_ids)>>,
     scan_ids |-> scan_ids, job_id |-> job_id]

\* blob.generate_signed_url
generate_signed_url(path) == "https://signed/" \o path

\* the first scan of the list, in order, that fails the validation of
\* generate_job (0 when every scan passes)
first_invalid(store, scan_ids) ==
    LET bad == {i \in 1 .. Len(scan_ids) :
                   \/ scan_ids[i] \notin DOMAIN store.scans
                   \/ get(store.scans[scan_ids[i]], "processing_status")
                          \notin {"annotated", "uploaded"}}
    IN  IF bad = {} THEN 0 ELSE CHOOSE i \in bad : \A j \in bad : i <= j

\* generate_job after the validation loop: the script blob, the job document,
\* then every scan queued
create_job(store, blobs, count, job_config, user, ok) ==
    LET scan_ids == job_config.scan_ids
        job_id == uuid4(count + 1)
        script_content == generate_slurm_script(job_id, scan_ids, job_config)
        script_path == "job_scripts/" \o job_id \o ".sh"
        job_data ==
            [id |-> job_id, scan_ids |-> scan_ids, job_script |-> script_path,
             status |-> "pending", slurm_id |-> None, submitted_at |-> utcnow,
             completed_at |-> None, log_output |-> None, created_by |-> user.uid]
        writes == <<SetDoc("kamiak_jobs", job_id, job_data)>>
                  \o [i \in 1 .. Len(scan_ids) |->
                         UpdateDoc("scans", scan_ids[i], [processing_status |-> "queued"])]
        out == run_writes(store, writes, ok)
    IN  [db |-> out.db,
         bucket |-> (script_path :> script_content) @@ blobs,
         uuid_count |-> count + 1,
         response |->
             IF out.done
             THEN Ok([job_id |-> job_id, script_content |-> script_content,
                      script_path |-> generate_signed_url(script_path),
                      instructions |-> <<"sbatch " \o job_id \o ".sh">>])
             ELSE HTTPException(500, "Failed to generate job")]

\* the answer of the validation loop for the scan at position invalid
validation_error(store, scan_ids, invalid) ==
    IF scan_ids[invalid] \notin DOMAIN store.scans
    THEN HTTPException(404, "Scan " \o scan_ids[invalid] \o " not found")
    ELSE HTTPException(400, "Scan " \o scan_ids[invalid]
                                \o " must be annotated before processing")

\* POST /jobs/generate with the validation loop run after the writes
generate_job_validates_late(store, blobs, count, job_config, user, ok) ==
    LET scan_ids == job_config.scan_ids
        invalid == first_invalid(store, scan_ids)
        out == create_job(store, blobs, count, job_config, user, ok)
    IN  IF invalid # 0
        THEN [out EXCEPT !.response = validation_error(store, scan_ids, invalid)]
        ELSE out

\* POST /jobs/generate with the scans left as they are
generate_job_leaves_scans(store, blobs, count, job_config, user, ok) ==
    LET scan_ids == job_config.scan_ids
        invalid == first_invalid(store, scan_ids)
        out == create_job(store, blobs, count, job_config, user, ok)
    IN  IF invalid # 0
        THEN [db |-> store, bucket |-> blobs, uuid_count |-> count,
              response |-> validation_error(store, scan_ids, invalid)]
        ELSE [out EXCEPT !.db = [@ EXCEPT !.scans = store.scans]]

\* POST /jobs/generate: the store, the bucket and the uuid count after the
\* call, and the response; ok is the number of Firestore writes that succeed
generate_job(store, blobs, count, job_config, user, ok) ==
    LET scan_ids == job_config.scan_ids
        invalid == first_invalid(store, scan_ids)
    IN  IF invalid # 0
        THEN [db |-> store, bucket |-> blobs, uuid_count |-> count,
              response |-> validation_error(store, scan_ids, invalid)]
        ELSE create_job(store, blobs, count, job_config, user, ok)

\* the processing_status update_job_status gives the scans of the job
scan_status_of(job_status) ==
    CASE job_status = "completed" -> "completed"
      [] job_status = "running" -> "processing"
      [] job_status = "failed" -> "failed"
      [] OTHER -> None

\* if value: None and "" are false
Truthy(value) == ~IsNone(value) /\ Len(value) > 0

\* POST /jobs/{job_id}/update with the scans left as they are
update_job_status_job_only(store, job_id, job_update, ok) ==
    IF job_id \notin DOMAIN store.kamiak_jobs
    THEN [db |-> store, response |-> HTTPException(404, "Job not found")]
    ELSE LET update_data ==
                 [status |-> job_update.status]
                 @@ (IF Truthy(job_update.slurm_id)
                     THEN [slurm_id |-> job_update.slurm_id] ELSE << >>)
                 @@ (IF Truthy(job_update.log_output)
                     THEN [log_output |-> job_update.log_output] ELSE << >>)
                 @@ (IF job_update.status \in {"completed", "failed"}
                     THEN [completed_at |-> utcnow] ELSE << >>)
             out == run_writes(store, <<UpdateDoc("kamiak_jobs", job_id, update_data)>>, ok)
         IN  [db |-> out.db,
              response |->
                  IF out.done THEN Ok([message |-> "Job status updated successfully"])
                  ELSE HTTPException(500, "Failed to update job")]

\* POST /jobs/{job_id}/update: the scans of the job are updated first, the job
\* document last
update_job_status(store, job_id, job_update, ok) ==
    IF job_id \notin DOMAIN store.kamiak_jobs
    THEN [db |-> store, response |-> HTTPException(404, "Job not found")]
    ELSE LET job_data == store.kamiak_jobs[job_id]
             update_data ==
                 [status |-> job_update.status]
                 @@ (IF Truthy(job_update.slurm_id)
                     THEN [slurm_id |-> job_update.slurm_id] ELSE << >>)
                 @@ (IF Truthy(job_update.log_output)
                     THEN [log_output |-> job_update.log_output] ELSE << >>)
                 @@ (IF job_update.status \in {"completed", "failed"}
                     THEN [completed_at |-> utcnow] ELSE << >>)
             scan_writes ==
                 IF job_update.status = "pending" THEN << >>
                 ELSE [i \in 1 .. Len(job_data.scan_ids) |->
                          UpdateDoc("scans", job_data.scan_ids[i],
                                    [processing_status |-> scan_status_of(job_update.status)])]
             out == run_writes(store,
                               scan_writes \o <<UpdateDoc("kamiak_jobs", job_id, update_data)>>,
                               ok)
         IN  [db |-> out.db,
              response |->
                  IF out.done THEN Ok([message |-> "Job status updated successfully"])
                  ELSE HTTPException(500, "Failed to update job")]

\* POST /annotations/sync: the annotation blob and document are written before
\* the scan is updated
sync_annotations(store, blobs, count, annotation, user, ok) ==
    LET annotation_id == uuid4(count + 1)
        annotation_path ==
            "annotations/" \o annotation.scan_id \o "/" \o annotation_id \o ".json"
        annotation_data ==
            [id |-> annotation_id, scan_id |-> annotation.scan_id,
             annotation_type |-> annotation.annotation_type,
             bounding_boxes |-> IF annotation.annotation_type = "bbox"
                                THEN get_default(annotation.annotations, "bboxes", << >>)
                                ELSE None,
             masks |-> IF annotation.annotation_type = "mask"
                       THEN get_default(annotation.annotations, "masks", << >>)
                       ELSE None,
             storage_path |-> annotation_path, created_at |-> utcnow,
             annotator_id |-> user.uid]
        out == run_writes(store,
                          <<SetDoc("annotations", annotation_id, annotation_data),
                            UpdateDoc("scans", annotation.scan_id,
                                      [processing_status |-> "annotated"])>>,
                          ok)
    IN  [db |-> out.db,
         bucket |-> (annotation_path :> annotation.annotations) @@ blobs,
         uuid_count |-> count + 1,
         response |->
             IF out.done
             THEN Ok([message |-> "Annotations synced successfully",
                      annotation_id |-> annotation_id])
             ELSE HTTPException(500, "Failed to sync annotations")]

\* PATCH /scans/{scan_id}/status
update_scan_status(store, scan_id, status, ok) ==
    IF scan_id \notin DOMAIN store.scans
    THEN [db |-> store, response |-> HTTPException(404, "Scan not found")]
    ELSE LET out == run_writes(store,
                               <<UpdateDoc("scans", scan_id, [processing_status |-> status])>>,
                               ok)
         IN  [db |-> out.db,
              response |->
                  IF out.done
                  THEN Ok([message |-> "Status updated successfully", status |-> status])
                  ELSE HTTPException(500, "Failed to update status")]

\* ---------------------------------------------------------- job inputs
\* a scan id with no scan document
MissingScan == "scan-3"

\* the document upload_scan writes
ScanDocument(scan_id) ==
    [id |-> scan_id, project_id |-> "project-1", filename |-> scan_id \o ".tiff",
     storage_path |-> "scans/project-1/" \o scan_id \o ".tiff",
     upload_timestamp |-> utcnow, processing_status |-> "uploaded",
     file_size |-> 1, num_slices |-> 1]

\* the scan_ids lists of the model: one scan, two scans, a missing scan last
\* or first
ScanIdLists ==
    {<<"scan-1">>, <<"scan-1", "scan-2">>, <<"scan-1", MissingScan>>,
     <<MissingScan, "scan-1">>}

\* the scans and statuses update_scan_status is asked for
ScanStatusRequests ==
    ({"scan-1"} \X ProcessingStatus) \cup {<<MissingScan, "annotated">>}

\* a JobGenerate body with the defaults of the model
JobGenerate(scan_ids) ==
    [scan_ids |-> scan_ids, job_name |-> "cttick_pipeline", partition |-> "gpu",
     time_limit |-> "02:00:00"]

\* JobUpdate bodies: each status, without SLURM id or log
JobUpdates ==
    <<[status |-> "pending", slurm_id |-> None, log_output |-> None],
      [status |-> "running", slurm_id |-> None, log_output |-> None],
      [status |-> "completed", slurm_id |-> None, log_output |-> None],
      [status |-> "failed", slurm_id |-> None, log_output |-> None]>>

\* an AnnotationSync body
AnnotationSync(scan_id) ==
    [scan_id |-> scan_id, annotation_type |-> "bbox", annotations |-> [bboxes |-> << >>]]

\* job ids a client may name
JobIds == {uuid4(k) : k \in 1 .. MaxJobUuid}

\* ---------------------------------------------------------- job actions
\* the backend with two uploaded scans and no job; every request of this
\* specification carries a token that verifies
JobInit ==
    /\ db = [segmentations |-> << >>, quantification_results |-> << >>,
             kamiak_jobs |-> << >>,
             scans |-> [id \in ScanIds |-> ScanDocument(id)],
             annotations |-> << >>]
    /\ bucket = << >>
    /\ uuid_count = 0
    /\ request = None
    /\ sitk = None
    /\ sp_ndimage = None
    /\ mask = EmptyVolume
    /\ organ_names = EmptyNames
    /\ spacing = <<1, 1, 1>>
    /\ raises = NoRaise
    /\ results = << >>
    /\ file = None
    /\ label = 0
    /\ op = "none"
    /\ ret = None
    /\ SlicerIdle
    /\ DetectorIdle

JobUser == main_verify_auth_token(<<"Bearer ", "valid">>)

\* POST /api/jobs/generate
GenerateJob ==
    \E scan_ids \in ScanIdLists :
      \E ok \in {Len(scan_ids), Len(scan_ids) + 1} :
        LET job_config == JobGenerate(scan_ids)
            out == generate_job(db, bucket, uuid_count, job_config, JobUser, ok)
        IN  /\ uuid_count < MaxJobUuid
            /\ op' = "generate_job"
            /\ request' = [body |-> job_config, user |-> JobUser]
            /\ ret' = out.response
            /\ db' = out.db
            /\ bucket' = out.bucket
            /\ uuid_count' = out.uuid_count
            /\ UNCHANGED <<engine_vars, slicer_vars, detector_vars>>

\* POST /api/jobs/{job_id}/update
UpdateJobStatus ==
    \E job_id \in JobIds, u \in DOMAIN JobUpdates, fails \in BOOLEAN :
        LET job_update == JobUpdates[u]
            n == IF job_id \in DOMAIN db.kamiak_jobs
                 THEN Len(db.kamiak_jobs[job_id].scan_ids) + 1 ELSE 0
        IN  \E ok \in (IF fails /\ n > 0 THEN {n - 1} ELSE {n}) :
              LET out == update_job_status(db, job_id, job_update, ok)
              IN  /\ op' = "update_job_status"
                  /\ request' = [job_id |-> job_id, body |-> job_update, user |-> JobUser]
                  /\ ret' = out.response
                  /\ db' = out.db
                  /\ UNCHANGED <<bucket, uuid_count, engine_vars, slicer_vars, detector_vars>>

\* POST /api/annotations/sync
SyncAnnotations ==
    \E scan_id \in {"scan-1", MissingScan} :
        LET ok == 2
            annotation == AnnotationSync(scan_id)
            out == sync_annotations(db, bucket, uuid_count, annotation, JobUser, ok)
        IN  /\ uuid_count < MaxJobUuid
            /\ op' = "sync_annotations"
            /\ request' = [body |-> annotation, user |-> JobUser]
            /\ ret' = out.response
            /\ db' = out.db
            /\ bucket' = out.bucket
            /\ uuid_count' = out.uuid_count
            /\ UNCHANGED <<engine_vars, slicer_vars, detector_vars>>

\* PATCH /api/scans/{scan_id}/status
UpdateScanStatus ==
    \E r \in ScanStatusRequests :
        LET ok == 1
            scan_id == r[1]
            status == r[2]
            out == update_scan_status(db, scan_id, status, ok)
        IN  /\ op' = "update_scan_status"
            /\ request' = [scan_id |-> scan_id, status |-> status, user |-> JobUser]
            /\ ret' = out.response
            /\ db' = out.db
            /\ UNCHANGED <<bucket, uuid_count, engine_vars, slicer_vars, detector_vars>>

JobNext == GenerateJob \/ UpdateJobStatus \/ SyncAnnotations \/ UpdateScanStatus

JobSpec == JobInit /\ [][JobNext]_vars

\* ======================================================== Slicer client
\* (tests/slicer_api/slicer_client.py)
MaxRuns == 2

\* config.get('timeout_seconds', 30)
DefaultTimeout == 30

\* a path as its components; os.path.dirname drops the last one
SlicerExe == <<"path", "to", "Slicer.exe">>
dirname(path) == SubSeq(path, 1, Len(path) - 1)

\* SlicerClient.is_slicer_available
is_slicer_available(self, files) ==
    ~IsNone(self.slicer_path) /\ self.slicer_path \in files

\* python_code.replace('"', '\\"') of a code given as its pieces, a double quote
\* being a piece of its own
escape_quotes(python_code) ==
    Join([i \in 1 .. Len(python_code) |->
              IF python_code[i] = "\"" THEN "\\\"" ELSE python_code[i]])

\* what subprocess.run does with the command: the process ends with a return
\* code, the timeout expires, or the launch fails
ProcessOutcomes ==
    <<[kind |-> "completed", returncode |-> 0, stdout |-> "Test output", stderr |-> ""],
      [kind |-> "completed", returncode |-> 1, stdout |-> "", stderr |-> "Error message"],
      [kind |-> "completed", returncode |-> -9, stdout |-> "partial", stderr |-> ""],
      [kind |-> "TimeoutExpired"],
      [kind |-> "OSError", message |-> "[Errno 8] Exec format error"]>>

\* SlicerClient.execute_cli_command with every completed process a success
execute_cli_command_always_success(self, files, python_code, outcome) ==
    IF ~is_slicer_available(self, files)
    THEN [ret |-> Raised("RuntimeError"), runs |-> << >>]
    ELSE IF IsNone(python_code)
    THEN [ret |-> [success |-> FALSE, stdout |-> "",
                   stderr |-> "'NoneType' object has no attribute 'replace'",
                   returncode |-> -1],
          runs |-> << >>]
    ELSE LET cmd == <<self.slicer_path, "--python-code", escape_quotes(python_code)>>
             run == [cmd |-> cmd, timeout |-> self.timeout,
                     cwd |-> dirname(self.slicer_path), outcome |-> outcome]
         IN  [ret |-> IF outcome.kind = "completed"
                      THEN [success |-> TRUE, stdout |-> outcome.stdout,
                            stderr |-> outcome.stderr, returncode |-> outcome.returncode]
                      ELSE IF outcome.kind = "TimeoutExpired"
                      THEN [success |-> FALSE, stdout |-> "",
                            stderr |-> "Command timed out after "
                                           \o ToString(self.timeout) \o " seconds",
                            returncode |-> -1]
                      ELSE [success |-> FALSE, stdout |-> "", stderr |-> outcome.message,
                            returncode |-> -1],
              runs |-> <<run>>]

\* SlicerClient.execute_cli_command: the value returned or the exception raised,
\* and the subprocess.run calls made; a python_code that is None fails at
\* .replace, inside the try and before the launch
execute_cli_command(self, files, python_code, outcome) ==
    IF ~is_slicer_available(self, files)
    THEN [ret |-> Raised("RuntimeError"), runs |-> << >>]
    ELSE IF IsNone(python_code)
    THEN [ret |-> [success |-> FALSE, stdout |-> "",
                   stderr |-> "'NoneType' object has no attribute 'replace'",
                   returncode |-> -1],
          runs |-> << >>]
    ELSE LET cmd == <<self.slicer_path, "--python-code", escape_quotes(python_code)>>
             run == [cmd |-> cmd, timeout |-> self.timeout,
                     cwd |-> dirname(self.slicer_path), outcome |-> outcome]
         IN  [ret |-> IF outcome.kind = "completed"
                      THEN [success |-> outcome.returncode = 0, stdout |-> outcome.stdout,
                            stderr |-> outcome.stderr, returncode |-> outcome.returncode]
                      ELSE IF outcome.kind = "TimeoutExpired"
                      THEN [success |-> FALSE, stdout |-> "",
                            stderr |-> "Command timed out after "
                                           \o ToString(self.timeout) \o " seconds",
                            returncode |-> -1]
                      ELSE [success |-> FALSE, stdout |-> "", stderr |-> outcome.message,
                            returncode |-> -1],
              runs |-> <<run>>]

\* ------------------------------------------------------- slicer inputs
\* slicer_path after __init__: None when nothing was configured or detected
SlicerPaths == <<None, SlicerExe>>

Timeouts == {DefaultTimeout, 2 * DefaultTimeout}

\* the code handed over: no code, the code of the tests, a code with quotes
PythonCodes ==
    <<None, <<"print('test')">>, <<"print(", "\"", "test", "\"", ")">>>>

\* ------------------------------------------------------ slicer actions
\* a constructed client on a machine where Slicer.exe is or is not a file
SlicerInit ==
    /\ \E p \in DOMAIN SlicerPaths, t \in Timeouts :
           client = [slicer_path |-> SlicerPaths[p], timeout |-> t]
    /\ filesystem \in SUBSET {SlicerExe}
    /\ subprocess_runs = << >>
    /\ sitk = None
    /\ sp_ndimage = None
    /\ mask = EmptyVolume
    /\ organ_names = EmptyNames
    /\ spacing = <<1, 1, 1>>
    /\ raises = NoRaise
    /\ results = << >>
    /\ file = None
    /\ label = 0
    /\ op = "none"
    /\ ret = None
    /\ BackendIdle
    /\ DetectorIdle

ExecuteCliCommand ==
    \E c \in DOMAIN PythonCodes, o \in DOMAIN ProcessOutcomes :
        LET out == execute_cli_command(client, filesystem, PythonCodes[c], ProcessOutcomes[o])
        IN  /\ Len(subprocess_runs) + Len(out.runs) <= MaxRuns
            /\ op' = "execute_cli_command"
            /\ ret' = out.ret
            /\ subprocess_runs' = subprocess_runs \o out.runs
            /\ UNCHANGED <<client, filesystem, engine_vars, backend_vars, detector_vars>>

SlicerNext == ExecuteCliCommand

SlicerSpec == SlicerInit /\ [][SlicerNext]_vars

\* ========================================================= YOLO detector
\* the volume of the model: DetSlices slices of DetRows rows and DetCols columns
DetSlices == 11
DetRows == 3
DetCols == 11

\* pixel coordinates of a box are floats; the model writes a coordinate as the
\* number of half pixels. int(c) of a coordinate c >= 0
py_int(half) == half \div 2

\* int(d * 0.1) for an integer d >= 0
tenth(d) == d \div 10

py_min(S) == CHOOSE m \in S : \A x \in S : m <= x
py_max(S) == CHOOSE m \in S : \A x \in S : x <= m
Min2(a, b) == IF a <= b THEN a ELSE b
Max2(a, b) == IF a >= b THEN a ELSE b

\* the (z, i) pairs of the detections: slice index z (0-based), position i
DetectionsOf(detections) ==
    {p \in (1 .. Len(detections)) \X (1 .. 2) :
        p[2] <= Len(detections[p[1]])}

\* YOLODetector.aggregate_to_3d_bbox: None without a detection, else the box
\* of the smallest and largest coordinates, padded by a tenth and clipped
aggregate_to_3d_bbox(detections, volume_shape) ==
    LET all == DetectionsOf(detections)
        bbox(p) == detections[p[1]][p[2]].bbox
    IN  IF all = {} THEN None
        ELSE LET x_min == py_int(py_min({bbox(p)[1] : p \in all}))
                 y_min == py_int(py_min({bbox(p)[2] : p \in all}))
                 x_max == py_int(py_max({bbox(p)[3] : p \in all}))
                 y_max == py_int(py_max({bbox(p)[4] : p \in all}))
                 z_min == py_min({p[1] - 1 : p \in all})
                 z_max == py_max({p[1] - 1 : p \in all})
                 padding_x == tenth(x_max - x_min)
                 padding_y == tenth(y_max - y_min)
                 padding_z == tenth(z_max - z_min)
             IN  [x_min |-> Max2(0, x_min - padding_x),
                  y_min |-> Max2(0, y_min - padding_y),
                  z_min |-> Max2(0, z_min - padding_z),
                  x_max |-> Min2(volume_shape[3], x_max + padding_x),
                  y_max |-> Min2(volume_shape[2], y_max + padding_y),
                  z_max |-> Min2(volume_shape[1], z_max + padding_z),
                  num_detections |-> Cardinality(all)]

\* a[lo[1]:hi[1], lo[2]:hi[2], lo[3]:hi[3]] for 0 <= lo and hi within the shape
np_slice(a, lo, hi) ==
    LET shape == [i \in 1 .. 3 |-> Max2(0, hi[i] - lo[i])]
    IN  [shape |-> shape,
         data |-> [k \in 1 .. Size(shape) |->
                      LET c == CIndex(shape, k)
                      IN  At(a, <<c[1] + lo[1], c[2] + lo[2], c[3] + lo[3]>>)]]

\* YOLODetector.crop_volume
crop_volume(v, box) ==
    IF IsNone(box) THEN v
    ELSE np_slice(v, <<box.z_min, box.y_min, box.x_min>>,
                  <<box.z_max, box.y_max, box.x_max>>)

\* ------------------------------------------------------ detector inputs
\* a volume whose voxels all differ: each holds its own position in the data
RampVolume ==
    [shape |-> <<DetSlices, DetRows, DetCols>>,
     data |-> [k \in 1 .. DetSlices * DetRows * DetCols |-> k]]

\* boxes [x1, y1, x2, y2] in half pixels: a corner pixel, a box inside, the
\* full width, and a wide box with fractional corners
DetectionBoxes ==
    <<<<0, 0, 2, 2>>, <<2, 2, 6, 4>>, <<0, 0, 22, 6>>, <<1, 1, 21, 5>>>>

Detection(b) == [bbox |-> DetectionBoxes[b], class |-> 0]

\* detect_volume's results in the model: no detection, one detection, or two
\* detections in one slice or in two slices (slice 0 means none)
SliceDetectionLists ==
    {[z \in 1 .. DetSlices |->
         (IF z = q[1] THEN <<Detection(q[3])>> ELSE << >>)
         \o (IF z = q[2] THEN <<Detection(q[4])>> ELSE << >>)] :
     q \in (0 .. DetSlices) \X (0 .. DetSlices)
           \X (DOMAIN DetectionBoxes) \X (DOMAIN DetectionBoxes)}

\* ----------------------------------------------------- detector actions
\* the segmentation script after detect_volume
DetectInit ==
    /\ volume = RampVolume
    /\ slice_detections \in SliceDetectionLists
    /\ bbox_3d = None
    /\ roi_volume = None
    /\ sitk = None
    /\ sp_ndimage = None
    /\ mask = EmptyVolume
    /\ organ_names = EmptyNames
    /\ spacing = <<1, 1, 1>>
    /\ raises = NoRaise
    /\ results = << >>
    /\ file = None
    /\ label = 0
    /\ op = "none"
    /\ ret = None
    /\ BackendIdle
    /\ SlicerIdle

\* bbox_3d = detector.aggregate_to_3d_bbox(slice_detections, volume.shape)
AggregateTo3dBbox ==
    /\ op = "none"
    /\ op' = "aggregate_to_3d_bbox"
    /\ bbox_3d' = aggregate_to_3d_bbox(slice_detections, volume.shape)
    /\ ret' = bbox_3d'
    /\ UNCHANGED <<volume, slice_detections, roi_volume, engine_vars, backend_vars,
                   slicer_vars>>

\* if bbox_3d: roi_volume = detector.crop_volume(volume, bbox_3d)
CropVolume ==
    /\ op = "aggregate_to_3d_bbox"
    /\ ~IsNone(bbox_3d)
    /\ op' = "crop_volume"
    /\ roi_volume' = crop_volume(volume, bbox_3d)
    /\ ret' = [shape |-> roi_volume'.shape]
    /\ UNCHANGED <<volume, slice_detections, bbox_3d, engine_vars, backend_vars,
                   slicer_vars>>

\* else: the full volume is processed under the box of its shape
FullVolume ==
    /\ op = "aggregate_to_3d_bbox"
    /\ IsNone(bbox_3d)
    /\ op' = "full_volume"
    /\ roi_volume' = volume
    /\ bbox_3d' = [x_min |-> 0, y_min |-> 0, z_min |-> 0,
                   x_max |-> volume.shape[3], y_max |-> volume.shape[2],
                   z_max |-> volume.shape[1]]
    /\ ret' = [shape |-> roi_volume'.shape]
    /\ UNCHANGED <<volume, slice_detections, engine_vars, backend_vars, slicer_vars>>

DetectNext == AggregateTo3dBbox \/ CropVolume \/ FullVolume

DetectSpec == DetectInit /\ [][DetectNext]_vars

\* ======================================================== properties
Quantified == op = "quantify_segmentation"

Voxels == Coords(mask.shape)

\* the voxels of the input volume that carry label l
VoxelsOf(l) ==
    {CIndex(mask.shape, k) : k \in {j \in 1 .. Size(mask.shape) : mask.data[j] = l}}

\* the values that occur in the input volume
PresentLabels == {mask.data[k] : k \in 1 .. Size(mask.shape)}

Records == {results[i] : i \in 1 .. Len(results)}

UnitSpacing == <<1, 1, 1>>

\* the call took the face-count path of compute_surface_area
FallbackSurface == sitk = None \/ raises.sitk

\* the call took the coordinate-mean path of compute_centroid
FallbackCentroid == sp_ndimage = None \/ raises.scipy

\* ---------------------------------------------------------------- C1
\* C1: the labels of the records returned by quantify_segmentation are exactly
\* the distinct non-zero values of the volume, one record per value; 0 is never
\* reported, even when organ_names has an entry for 0.
LabelsAreNonZeroValues ==
    Quantified =>
        /\ {r.label : r \in Records} = PresentLabels \ {0}
        /\ Len(results) = Cardinality(PresentLabels \ {0})
        /\ \A r \in Records : r.label # 0

BackgroundNamedButSkipped ==
    /\ Quantified
    /\ 0 \in PresentLabels
    /\ 0 \in DOMAIN organ_names
    /\ Len(results) = 2

\* ---------------------------------------------------------------- C2
\* C2: the records are in strictly ascending order of label.
AscendingLabels ==
    Quantified =>
        \A i \in 1 .. Len(results) - 1 : results[i].label < results[i + 1].label

TwoRecordsInOrder ==
    /\ Quantified
    /\ Len(results) >= 2
    /\ results[1].label < results[2].label

\* ---------------------------------------------------------------- C3
Abs(n) == IF n < 0 THEN -n ELSE n

\* two voxels share a face
FaceAdjacent(p, q) == Abs(p[1] - q[1]) + Abs(p[2] - q[2]) + Abs(p[3] - q[3]) = 1

\* C3: a record's volume is (number of voxels equal to the label) * sz * sy * sx;
\* with spacing (1,1,1) the volume is the voxel count itself.
VolumeIsCountTimesSpacing ==
    Quantified =>
        \A r \in Records :
            /\ r.volume = Cardinality(VoxelsOf(r.label)) * spacing[1] * spacing[2] * spacing[3]
            /\ (spacing = UnitSpacing => r.volume = Cardinality(VoxelsOf(r.label)))

\* two labelled regions that share no face, unit spacing, different sizes
TwoSeparateRegionsMeasured ==
    /\ Quantified
    /\ spacing = UnitSpacing
    /\ Len(results) = 2
    /\ \A p \in VoxelsOf(results[1].label), q \in VoxelsOf(results[2].label) :
           ~FaceAdjacent(p, q)
    /\ results[1].volume = 1
    /\ results[2].volume = 2

\* ---------------------------------------------------------------- C4
\* C4: additional_metrics.num_voxels of a record is the number of voxels of the
\* input volume that equal the record's label (27 for the 3x3x3 block of the test).
NumVoxelsIsCount ==
    Quantified =>
        /\ \A r \in Records :
               r.additional_metrics.num_voxels = Cardinality(VoxelsOf(r.label))
        /\ (mask = TestVolume =>
               /\ Len(results) = 1
               /\ results[1].additional_metrics.num_voxels = 27)

TestBlockCounted ==
    /\ Quantified
    /\ mask = TestVolume
    /\ organ_names = TestNames
    /\ results[1].organ_name = "organ1"
    /\ results[1].additional_metrics.num_voxels = 27

\* ---------------------------------------------------------------- C5
\* the neighbour of voxel c one step along axis a (1 = z, 2 = y, 3 = x)
Step(c, a) == [i \in 1 .. 3 |-> IF i = a THEN c[i] + 1 ELSE c[i]]

\* pairs of voxels adjacent along axis a of which exactly one carries label l
Faces(l, a) ==
    Cardinality({c \in Voxels :
        /\ Step(c, a) \in Voxels
        /\ (At(mask, c) = l) # (At(mask, Step(c, a)) = l)})

\* C5: on the fallback path the surface area is
\* faces_z*(sy*sx) + faces_y*(sz*sx) + faces_x*(sz*sy); a neighbour with another
\* non-zero label counts as not carrying the label.
FallbackSurfaceIsWeightedFaces ==
    (Quantified /\ FallbackSurface) =>
        \A r \in Records :
            r.surface_area =
                Faces(r.label, 1) * (spacing[2] * spacing[3])
              + Faces(r.label, 2) * (spacing[1] * spacing[3])
              + Faces(r.label, 3) * (spacing[1] * spacing[2])

\* two different organs share a face, anisotropic spacing, fallback path
NeighbouringOrgansMeasured ==
    /\ Quantified
    /\ FallbackSurface
    /\ spacing = <<1, 2, 3>>
    /\ Len(results) = 2
    /\ \E p \in VoxelsOf(results[1].label), q \in VoxelsOf(results[2].label) :
           FaceAdjacent(p, q)
    /\ results[1].surface_area > 0

\* ---------------------------------------------------------------- C6
\* the voxels of the k x k x k cube whose minimum corner is lo
Cube(lo, k) == {c \in Voxels : \A i \in 1 .. 3 : lo[i] <= c[i] /\ c[i] < lo[i] + k}

\* the voxel set S is exactly one k-cube that touches no border of the volume
SurroundedCube(S, lo, k) ==
    /\ \A i \in 1 .. 3 : lo[i] >= 1 /\ lo[i] + k <= mask.shape[i] - 1
    /\ Cardinality(S) = k * k * k
    /\ S = Cube(lo, k)

MaxSide == IF Voxels = {} THEN 0 ELSE mask.shape[1]

\* C6: a single k x k x k cube of one label surrounded by background has, with
\* unit spacing, fallback surface area 6*k*k; the 3x3x3 cube of the test gives 54.
SurroundedCubeSurface ==
    (Quantified /\ FallbackSurface /\ spacing = UnitSpacing) =>
        /\ \A r \in Records :
               LET S == VoxelsOf(r.label)
               IN  \A lo \in S : \A k \in 1 .. MaxSide :
                       SurroundedCube(S, lo, k) => r.surface_area = 6 * k * k
        /\ (mask = TestVolume => results[1].surface_area = 54)

TestCubeSurface54 ==
    /\ Quantified
    /\ FallbackSurface
    /\ spacing = UnitSpacing
    /\ mask = TestVolume
    /\ SurroundedCube(VoxelsOf(1), <<2, 2, 2>>, 3)
    /\ results[1].surface_area = 54

\* ---------------------------------------------------------------- C7
RECURSIVE AxisTotalFrom(_, _, _)
\* the sum of the axis-d indices of the voxels of S whose axis-d index is >= v
AxisTotalFrom(S, d, v) ==
    IF v >= mask.shape[d] THEN 0
    ELSE v * Cardinality({c \in S : c[d] = v}) + AxisTotalFrom(S, d, v + 1)

\* the sum of the axis-d indices of a set of voxels
AxisTotal(S, d) == AxisTotalFrom(S, d, 0)

\* q is the fraction total / n
IsQuotient(q, total, n) == q.den > 0 /\ q.num * n = total * q.den

\* C7: the reported centroid is the per-axis mean of the (z, y, x) indices of the
\* label's voxels, the center-of-mass path and the coordinate-mean path give the
\* same triple, and the cube of the test has centroid (3.0, 3.0, 3.0).
CentroidIsCoordinateMean ==
    Quantified =>
        /\ \A r \in Records : \A d \in 1 .. 3 :
               IsQuotient(r.centroid[d], AxisTotal(VoxelsOf(r.label), d),
                          Cardinality(VoxelsOf(r.label)))
        /\ \A l \in PresentLabels :
               center_of_mass(EqualTo(mask, l)) = centroid_fallback(EqualTo(mask, l))
        /\ (mask = TestVolume =>
               results[1].centroid = <<Float(3), Float(3), Float(3)>>)

\* the cube of the test measured by the center-of-mass path
TestCubeCentroidByLibrary ==
    /\ Quantified
    /\ ~FallbackCentroid
    /\ mask = TestVolume
    /\ results[1].centroid = <<Float(3), Float(3), Float(3)>>
    /\ centroid_fallback(EqualTo(mask, 1)) = results[1].centroid

\* ---------------------------------------------------------------- C8
\* C8: compute_centroid called with a label that no voxel carries returns
\* (0.0, 0.0, 0.0), whether or not the statistics library is available.
AbsentLabelCentroidIsZero ==
    (op = "compute_centroid" /\ VoxelsOf(label) = {}) =>
        ret = <<Float(0), Float(0), Float(0)>>

\* ---------------------------------------------------------------- C9
\* box b is the tight inclusive bounding box of the voxel set S
TightBox(b, S) ==
    /\ \A c \in S : /\ b.z_min <= c[1] /\ c[1] <= b.z_max
                    /\ b.y_min <= c[2] /\ c[2] <= b.y_max
                    /\ b.x_min <= c[3] /\ c[3] <= b.x_max
    /\ \E c \in S : c[1] = b.z_min
    /\ \E c \in S : c[1] = b.z_max
    /\ \E c \in S : c[2] = b.y_min
    /\ \E c \in S : c[2] = b.y_max
    /\ \E c \in S : c[3] = b.x_min
    /\ \E c \in S : c[3] = b.x_max

TestBox == [z_min |-> 2, y_min |-> 2, x_min |-> 2, z_max |-> 4, y_max |-> 4, x_max |-> 4]

\* C9: bounding_box holds the inclusive minimum and maximum index per axis among
\* the label's voxels: every voxel lies inside and each bound is attained; the
\* cube of the test gives minima 2 and maxima 4.
BoundingBoxIsTight ==
    Quantified =>
        /\ \A r \in Records :
               r.bounding_box # None /\ TightBox(r.bounding_box, VoxelsOf(r.label))
        /\ (mask = TestVolume => results[1].bounding_box = TestBox)

TestCubeBox ==
    /\ Quantified
    /\ mask = TestVolume
    /\ results[1].bounding_box = TestBox

\* --------------------------------------------------------------- C10
\* C10: compute_bounding_box returns None when no voxel carries the label and a
\* box when some voxel does, so no record of quantify_segmentation lacks a box.
BoundingBoxAbsentIffNoVoxel ==
    /\ op = "compute_bounding_box" => ((ret = None) <=> (VoxelsOf(label) = {}))
    /\ Quantified => \A r \in Records : r.bounding_box # None

AbsentLabelHasNoBox ==
    /\ op = "compute_bounding_box"
    /\ Voxels # {}
    /\ VoxelsOf(label) = {}
    /\ ret = None

\* --------------------------------------------------------------- C11
\* C11: the organ_name of a record is organ_names[label] when the label is a key
\* of organ_names and otherwise "organ_" followed by the label's integer value;
\* label 7 with an empty table is named "organ_7".
OrganNameFromTableOrLabel ==
    Quantified =>
        \A r \in Records :
            /\ r.label \in DOMAIN organ_names => r.organ_name = organ_names[r.label]
            /\ r.label \notin DOMAIN organ_names =>
                   r.organ_name = "organ_" \o ToString(r.label)
            /\ (r.label = 7 /\ organ_names = EmptyNames) => r.organ_name = "organ_7"

SevenNamedByLabel ==
    /\ Quantified
    /\ mask = SevenVolume
    /\ organ_names = EmptyNames
    /\ Len(results) = 1
    /\ results[1].organ_name = "organ_7"

\* --------------------------------------------------------------- C12
\* C12: for a volume without voxels and for a volume whose voxels are all 0,
\* whatever its shape and the spacing, quantify_segmentation returns the empty
\* list (and no exception).
BackgroundOnlyGivesNoRecords ==
    (Quantified /\ PresentLabels \subseteq {0}) => results = << >>

AllZeroAnisotropicQuantified ==
    /\ Quantified
    /\ Voxels # {}
    /\ PresentLabels = {0}
    /\ spacing = <<2, 3, 4>>
    /\ results = << >>

\* --------------------------------------------------------------- C13
\* the call returned a list, not an exception (compared as text: a list and an
\* exception are values of different kinds)
Returned ==
    ToString(results) \notin
        {ToString(Raised(e)) : e \in {"AttributeError", "RuntimeError", "ValueError"}}

\* C13: when SimpleITK or scipy is absent, or raises during the call,
\* quantify_segmentation raises nothing and still returns one record per label,
\* whose surface_area is the weighted face count when the SimpleITK path was not
\* taken and whose centroid is the coordinate mean when the scipy path was not.
LibraryFailureFallsBack ==
    (Quantified /\ (FallbackSurface \/ FallbackCentroid)) =>
        /\ Returned
        /\ {r.label : r \in Records} = PresentLabels \ {0}
        /\ FallbackSurface =>
               \A r \in Records :
                   r.surface_area =
                       Faces(r.label, 1) * (spacing[2] * spacing[3])
                     + Faces(r.label, 2) * (spacing[1] * spacing[3])
                     + Faces(r.label, 3) * (spacing[1] * spacing[2])
        /\ FallbackCentroid =>
               \A r \in Records : \A d \in 1 .. 3 :
                   IsQuotient(r.centroid[d], AxisTotal(VoxelsOf(r.label), d),
                              Cardinality(VoxelsOf(r.label)))

\* both libraries are installed and both raise; two organs are still measured
BothLibrariesRaised ==
    /\ Quantified
    /\ raises.sitk
    /\ raises.scipy
    /\ Len(results) = 2
    /\ results[1].surface_area > 0
    /\ results[2].centroid[3].den > 0

\* --------------------------------------------------------------- C15
\* C15: no call of the engine (quantify_segmentation with the per-label
\* functions it calls, compute_centroid, compute_bounding_box, the mask writers)
\* changes the label volume, organ_names or spacing the caller handed over.
InputsUnchanged ==
    [][mask' = mask /\ organ_names' = organ_names /\ spacing' = spacing]_vars

\* a call that read all three inputs: named organs, anisotropic spacing
TwoNamedOrgansQuantified ==
    /\ Quantified
    /\ organ_names = BackgroundNames
    /\ spacing = <<1, 2, 3>>
    /\ Len(results) = 2
    /\ results[1].organ_name = "organ1"
    /\ results[2].organ_name = "organ_2"
    /\ results[2].volume = 6 * results[2].additional_metrics.num_voxels

\* --------------------------------------------------------------- C17
\* the (z, y, x) spacing of the caller in SimpleITK's (x, y, z) order
HeaderOrder == <<spacing[3], spacing[2], spacing[1]>>

\* C17: the image written by save_mask_as_nrrd and by save_mask_as_nifti carries
\* the spacing in (x, y, z) order, the reverse of the (z, y, x) spacing handed
\* in, and the image that compute_surface_area gives SimpleITK carries it in the
\* same order.
SpacingReversedByEveryWriter ==
    /\ (op \in {"save_mask_as_nrrd", "save_mask_as_nifti"} /\ ret = None) =>
           file.image.spacing = HeaderOrder
    /\ (Quantified /\ ~FallbackSurface) =>
           \A r \in Records : r.surface_area.spacing = HeaderOrder

\* a NIfTI file written with anisotropic spacing
NiftiWrittenAnisotropic ==
    /\ op = "save_mask_as_nifti"
    /\ ret = None
    /\ spacing = <<1, 2, 3>>
    /\ file.path = "mask.nii.gz"
    /\ file.image.spacing = <<3, 2, 1>>
    /\ file.image.array.shape = mask.shape

\* --------------------------------------------------------------- C16
\* every field of the record is a field of the document, with the same value
KeepsAllFields(doc, record) ==
    \A k \in DOMAIN record : k \in DOMAIN doc /\ doc[k] = record[k]

\* C16: each quantification record handed to persistence is stored with all of
\* its fields, by upload_results_to_firebase and by POST /results/upload alike.
EveryHandedFieldStored ==
    /\ (op = "upload_results_to_firebase" /\ "segmentation_id" \in DOMAIN ret) =>
           \A i \in 1 .. Len(results) :
               \E id \in DOMAIN db.quantification_results :
                   /\ db.quantification_results[id].segmentation_id = ret.segmentation_id
                   /\ KeepsAllFields(db.quantification_results[id], results[i])
    /\ (op = "upload_results" /\ ret.status = 200) =>
           \A i \in 1 .. Len(request.body.quantification) :
               KeepsAllFields(db.quantification_results[ret.body.quantification_ids[i]],
                              request.body.quantification[i])

\* --------------------------------------------------------------- C18
\* the routes of the model that depend on verify_auth_token
GuardedRoutes ==
    {"upload_results", "get_quantification_results", "get_segmentation", "get_job"}

\* the Authorization header is absent or empty
HeaderMissing(h) == IsNone(h) \/ Len(h) = 0

\* the header is "Bearer " followed by one token
IsBearer(h) == ~HeaderMissing(h) /\ Len(h) = 2 /\ h[1] = "Bearer "

\* C18: a guarded route answers 401 when the Authorization header is missing or
\* its bearer token does not verify, and then nothing is written (no document,
\* no blob, no id drawn); with a bearer token that verifies the answer is the
\* handler's, which ran with the decoded user.
GuardDecidesEveryRoute ==
    [][op' \in GuardedRoutes =>
          LET h == request'.authorization
          IN  /\ (HeaderMissing(h) \/ (IsBearer(h) /\ h[2] \notin ValidTokens)) =>
                     /\ ret'.status = 401
                     /\ db' = db
                     /\ bucket' = bucket
                     /\ uuid_count' = uuid_count
              /\ (IsBearer(h) /\ h[2] \in ValidTokens) =>
                     /\ ret'.status \in {200, 404, 500}
                     /\ request'.user = [uid |-> "u1"]
                     /\ (op' = "upload_results" /\ ret'.status = 200) =>
                            ret'.body.segmentation_id \in DOMAIN db'.segmentations
                                                          \ DOMAIN db.segmentations]_vars

\* an upload with a token that does not verify is turned away from a backend that
\* already holds a segmentation, and the store is as the earlier upload left it
InvalidTokenUploadRejected ==
    /\ op = "upload_results"
    /\ IsBearer(request.authorization)
    /\ request.authorization[2] = "invalid"
    /\ ret.status = 401
    /\ uuid_count = 2
    /\ DOMAIN db.segmentations = {uuid4(1)}
    /\ DOMAIN db.quantification_results = {uuid4(2)}

\* --------------------------------------------------------------- C19
\* the fields of a quantification entry that the response model requires
EntryFields == {"organ_name", "volume", "surface_area", "centroid"}

\* C19: after POST /results/upload with n entries has answered 200, exactly one
\* segmentation document is new and it is of the given scan, n quantification
\* documents are new and each carries that segmentation's id, the response
\* lists their n pairwise distinct ids, GET /quantification/{segmentation_id}
\* answers with exactly those n records and GET /segmentations/{segmentation_id}
\* with the segmentation.
UploadThenFetch ==
    [][(op' = "upload_results" /\ ret'.status = 200) =>
          LET entries == request'.body.quantification
              n == Len(entries)
              seg == ret'.body.segmentation_id
              ids == ret'.body.quantification_ids
              new_segs == DOMAIN db'.segmentations \ DOMAIN db.segmentations
              new_quants == DOMAIN db'.quantification_results
                                \ DOMAIN db.quantification_results
              fetched == get_quantification_results(db', seg)
              segmentation == get_segmentation(db', seg)
          IN  /\ new_segs = {seg}
              /\ db'.segmentations[seg].scan_id = request'.body.scan_id
              /\ Len(ids) = n
              /\ Cardinality({ids[i] : i \in 1 .. n}) = n
              /\ new_quants = {ids[i] : i \in 1 .. n}
              /\ \A id \in new_quants :
                     db'.quantification_results[id].segmentation_id = seg
              /\ fetched.status = 200
              /\ Len(fetched.body) = n
              /\ \A i \in 1 .. n :
                     \E j \in 1 .. n :
                         /\ fetched.body[j].id = ids[i]
                         /\ fetched.body[j].segmentation_id = seg
                         /\ \A k \in EntryFields : fetched.body[j][k] = entries[i][k]
              /\ segmentation.status = 200
              /\ segmentation.body.id = seg
              /\ segmentation.body.scan_id = request'.body.scan_id
              /\ segmentation.body.mask_url = request'.body.segmentation_url]_vars

\* --------------------------------------------------------------- C20
\* the text holds the words "timed out"
ContainsTimedOut(text) ==
    \E i \in 1 .. Len(text) - 8 : SubSeq(text, i, i + 8) = "timed out"

\* C20: execute_cli_command raises RuntimeError and starts no process when
\* Slicer is not available; otherwise it returns, never raises: for a process
\* that ended, success = (return code is 0) with the stdout, stderr and return
\* code of the process; for a timeout or any other error success False and
\* returncode -1, the stderr of a timeout holding "timed out".
CliCommandOutcome ==
    [][op' = "execute_cli_command" =>
          IF IsNone(client.slicer_path) \/ client.slicer_path \notin filesystem
          THEN /\ ret' = Raised("RuntimeError")
               /\ subprocess_runs' = subprocess_runs
          ELSE /\ DOMAIN ret' = {"success", "stdout", "stderr", "returncode"}
               /\ IF Len(subprocess_runs') = Len(subprocess_runs)
                  THEN ret'.success = FALSE /\ ret'.returncode = -1
                  ELSE LET process == subprocess_runs'[Len(subprocess_runs')].outcome
                       IN  IF process.kind = "completed"
                           THEN /\ ret'.success = (process.returncode = 0)
                                /\ ret'.stdout = process.stdout
                                /\ ret'.stderr = process.stderr
                                /\ ret'.returncode = process.returncode
                           ELSE /\ ret'.success = FALSE
                                /\ ret'.returncode = -1
                                /\ process.kind = "TimeoutExpired" =>
                                       ContainsTimedOut(ret'.stderr)]_vars

\* a process that ended with return code 1 after an earlier one that timed out
FailedRunAfterTimeout ==
    /\ op = "execute_cli_command"
    /\ Len(subprocess_runs) = 2
    /\ subprocess_runs[1].outcome.kind = "TimeoutExpired"
    /\ subprocess_runs[2].outcome.kind = "completed"
    /\ ret = [success |-> FALSE, stdout |-> "", stderr |-> "Error message", returncode |-> 1]

\* --------------------------------------------------------------- C21
\* the status of the scan with the given id
StatusOfScan(store, scan_id) == store.scans[scan_id].processing_status

\* the scan ids listed in the job
ScansOfJob(store, job_id) ==
    {store.kamiak_jobs[job_id].scan_ids[i] :
         i \in 1 .. Len(store.kamiak_jobs[job_id].scan_ids)}

\* C21: after update_job_status(job, S) has answered 200 the job's status is S;
\* for S = running, completed, failed every scan listed in the job has
\* processing_status processing, completed, failed respectively; for
\* S = pending no scan's processing_status changes. For a job id without a job
\* document the answer is 404 and nothing changes.
JobUpdateReachesScans ==
    [][op' = "update_job_status" =>
          LET job_id == request'.job_id
              S == request'.body.status
          IN  IF job_id \notin DOMAIN db.kamiak_jobs
              THEN ret'.status = 404 /\ db' = db /\ bucket' = bucket
              ELSE ret'.status = 200 =>
                     /\ db'.kamiak_jobs[job_id].status = S
                     /\ S = "running" =>
                            \A sc \in ScansOfJob(db, job_id) :
                                StatusOfScan(db', sc) = "processing"
                     /\ S = "completed" =>
                            \A sc \in ScansOfJob(db, job_id) :
                                StatusOfScan(db', sc) = "completed"
                     /\ S = "failed" =>
                            \A sc \in ScansOfJob(db, job_id) :
                                StatusOfScan(db', sc) = "failed"
                     /\ S = "pending" =>
                            \A sc \in DOMAIN db.scans :
                                StatusOfScan(db', sc) = StatusOfScan(db, sc)]_vars

\* a job of two scans was set running and both scans are processing
TwoScanJobRunning ==
    /\ op = "update_job_status"
    /\ ret.status = 200
    /\ request.body.status = "running"
    /\ db.kamiak_jobs[request.job_id].scan_ids = <<"scan-1", "scan-2">>
    /\ db.kamiak_jobs[request.job_id].status = "running"
    /\ StatusOfScan(db, "scan-1") = "processing"
    /\ StatusOfScan(db, "scan-2") = "processing"

\* the positions of a scan_ids list
Positions(scan_ids) == 1 .. Len(scan_ids)

\* C22: after generate_job has answered 200 there is one new job document,
\* under the job id of the answer, with status pending, slurm_id and
\* completed_at null and scan_ids exactly the requested list, and every
\* requested scan has processing_status queued.
GeneratedJobIsPending ==
    [][(op' = "generate_job" /\ ret'.status = 200) =>
          LET job_id == ret'.body.job_id
              scan_ids == request'.body.scan_ids
          IN  /\ job_id \notin DOMAIN db.kamiak_jobs
              /\ DOMAIN db'.kamiak_jobs = DOMAIN db.kamiak_jobs \cup {job_id}
              /\ db'.kamiak_jobs[job_id].status = "pending"
              /\ IsNone(db'.kamiak_jobs[job_id].slurm_id)
              /\ IsNone(db'.kamiak_jobs[job_id].completed_at)
              /\ db'.kamiak_jobs[job_id].scan_ids = scan_ids
              /\ \A i \in Positions(scan_ids) :
                     StatusOfScan(db', scan_ids[i]) = "queued"]_vars

\* a job of two scans was generated and both scans are queued
TwoScanJobGenerated ==
    /\ op = "generate_job"
    /\ ret.status = 200
    /\ request.body.scan_ids = <<"scan-1", "scan-2">>
    /\ db.kamiak_jobs[ret.body.job_id].status = "pending"
    /\ StatusOfScan(db, "scan-1") = "queued"
    /\ StatusOfScan(db, "scan-2") = "queued"

\* C23: generate_job answers 404 or 400 when a requested scan has no document
\* or a processing_status other than annotated: 404 when the first such scan
\* of the list has no document, 400 when it has one.
GenerateJobRequiresAnnotated ==
    [][op' = "generate_job" =>
          LET scan_ids == request'.body.scan_ids
              unfit == {i \in Positions(scan_ids) :
                           \/ scan_ids[i] \notin DOMAIN db.scans
                           \/ StatusOfScan(db, scan_ids[i]) # "annotated"}
          IN  \A i \in unfit :
                  (\A j \in unfit : i <= j) =>
                      ret'.status = (IF scan_ids[i] \in DOMAIN db.scans THEN 400 ELSE 404)]_vars

\* C24: when generate_job answers 404 or 400 the store is as it was: no job
\* document, no script blob, no scan's processing_status changed, no id drawn,
\* also when scans earlier in the list passed the validation.
RejectedJobWritesNothing ==
    [][(op' = "generate_job" /\ ret'.status \in {404, 400}) =>
          /\ db' = db
          /\ bucket' = bucket
          /\ uuid_count' = uuid_count]_vars

\* a list whose first scan passes the validation and whose second has no
\* document was answered 404
ValidThenMissingRejected ==
    /\ op = "generate_job"
    /\ ret.status = 404
    /\ request.body.scan_ids = <<"scan-1", MissingScan>>
    /\ StatusOfScan(db, "scan-1") \in {"annotated", "uploaded"}
    /\ db.kamiak_jobs = << >>
    /\ bucket = << >>

\* C25: a job's completed_at is non-null exactly when its status is completed
\* or failed, after any sequence of generate_job and update_job_status calls.
CompletedAtFollowsStatus ==
    \A job_id \in DOMAIN db.kamiak_jobs :
        (~IsNone(db.kamiak_jobs[job_id].completed_at))
            <=> (db.kamiak_jobs[job_id].status \in {"completed", "failed"})

\* the jobs that are pending or running and list the scan
ActiveJobsOf(scan_id) ==
    {job_id \in DOMAIN db.kamiak_jobs :
        /\ db.kamiak_jobs[job_id].status \in {"pending", "running"}
        /\ scan_id \in ScansOfJob(db, job_id)}

\* C26: under any interleaving of generate_job, update_job_status,
\* sync_annotations and update_scan_status, a scan is listed in at most one
\* job whose status is pending or running.
ScanInAtMostOneActiveJob ==
    \A scan_id \in DOMAIN db.scans : Cardinality(ActiveJobsOf(scan_id)) <= 1

\* C27: in every reachable state, also after an upload that failed part-way,
\* the segmentation_id of every quantification_results document is the id of
\* a segmentations document.
QuantificationNamesSegmentation ==
    \A quant_id \in DOMAIN db.quantification_results :
        db.quantification_results[quant_id].segmentation_id \in DOMAIN db.segmentations

\* an upload of two entries failed after the first quantification document
UploadFailedPartWay ==
    /\ op = "upload_results"
    /\ ret.status = 500
    /\ "body" \in DOMAIN request
    /\ Len(request.body.quantification) = 2
    /\ Cardinality(DOMAIN db.quantification_results) = 1
    /\ Cardinality(DOMAIN db.segmentations) = 1

\* --------------------------------------------------------------- C28
\* the (z, y, x) indices of the voxels of the volume that the region holds
KeptVoxels ==
    {CIndex(volume.shape, roi_volume.data[k]) : k \in 1 .. Size(roi_volume.shape)}

\* the slices with a detection, 0-based
DetectedSlices == {p[1] - 1 : p \in DetectionsOf(slice_detections)}

\* the pixel columns (i = 1) or rows (i = 2) a detection's box covers at least in part
Covered(p, i) ==
    LET b == slice_detections[p[1]][p[2]].bbox
    IN  {c \in 0 .. (IF i = 1 THEN DetCols ELSE DetRows) - 1 :
            2 * (c + 1) > b[i] /\ 2 * c < b[i + 2]}

\* C28: whenever aggregate_to_3d_bbox returned a box, the region crop_volume
\* cuts with it holds every slice that has a detection and, of every
\* detection, the rows and columns its box covers; so the region is not empty.
CropKeepsDetections ==
    op = "crop_volume" =>
        /\ \A z \in DetectedSlices : \E c \in KeptVoxels : c[1] = z
        /\ \A p \in DetectionsOf(slice_detections) :
               /\ \A x \in Covered(p, 1) : \E c \in KeptVoxels : c[3] = x
               /\ \A y \in Covered(p, 2) : \E c \in KeptVoxels : c[2] = y
        /\ KeptVoxels # {}

\* --------------------------------------------------------------- C29
\* C29: the mask written by save_mask_as_nrrd or save_mask_as_nifti carries at
\* every voxel the label the mask has there, for every non-negative integer
\* label: the cast to 8-bit unsigned changes no label.
SavedMaskKeepsLabels ==
    (op \in {"save_mask_as_nrrd", "save_mask_as_nifti"} /\ ~IsNone(file)) =>
        /\ file.image.array.shape = mask.shape
        /\ \A k \in 1 .. Size(mask.shape) : file.image.array.data[k] = mask.data[k]

\* --------------------------------------------------------------- C30
\* the voxel next to c along axis a in direction d (+1 or -1)
Beside(c, a, d) == [i \in 1 .. 3 |-> IF i = a THEN c[i] + d ELSE c[i]]

\* the faces across axis a of voxels of label l that a voxel of the volume
\* without the label lies behind
SharedFaces(l, a) ==
    Cardinality({f \in VoxelsOf(l) \X {-1, 1} :
        /\ Beside(f[1], a, f[2]) \in Voxels
        /\ At(mask, Beside(f[1], a, f[2])) # l})

\* the voxel set S is a k-cube with minimum corner lo that touches the border
BorderCube(S, lo, k) ==
    /\ S = Cube(lo, k)
    /\ Cardinality(S) = k * k * k
    /\ \E i \in 1 .. 3 : lo[i] = 0 \/ lo[i] + k = mask.shape[i]

\* C30: the face-count fallback counts only faces shared by two voxels of the
\* volume; a face on the outer border contributes nothing, so a label that
\* fills the whole volume has fallback area 0 and, with unit spacing, a
\* k x k x k cube touching the border has less than 6*k*k.
BorderFacesNotCounted ==
    (Quantified /\ FallbackSurface) =>
        \A r \in Records :
            LET S == VoxelsOf(r.label)
            IN  /\ r.surface_area =
                        SharedFaces(r.label, 1) * (spacing[2] * spacing[3])
                      + SharedFaces(r.label, 2) * (spacing[1] * spacing[3])
                      + SharedFaces(r.label, 3) * (spacing[1] * spacing[2])
                /\ S = Voxels => r.surface_area = 0
                /\ spacing = UnitSpacing =>
                       \A lo \in S : \A k \in 1 .. MaxSide :
                           BorderCube(S, lo, k) => r.surface_area < 6 * k * k

\* a 2 x 2 x 2 cube in the corner of the volume, measured by the fallback with
\* unit spacing: its three inner sides count, its three border sides do not
CornerCubeMeasured ==
    /\ Quantified
    /\ FallbackSurface
    /\ spacing = UnitSpacing
    /\ mask.shape = <<Dim, Dim, Dim>>
    /\ Len(results) = 1
    /\ BorderCube(VoxelsOf(results[1].label), <<0, 0, 0>>, 2)
    /\ results[1].surface_area = 12

====
